---- MODULE Spec2Model ----
(***************************************************************************)
(* fund-lens-api: a read-only HTTP query service over a campaign-finance   *)
(* data set.  The state is the database (tables and materialized views),   *)
(* the request being served and its response.  Every handler is one       *)
(* action: it opens a session on the database, runs its SELECTs and        *)
(* produces a response; CloseSession is the `finally` of get_db.           *)
(*                                                                         *)
(* Encoding of values:                                                     *)
(*   - ids are positive integers; a NULL foreign key or an absent          *)
(*     optional integer parameter is NoId / NoDate / NoAmount;             *)
(*   - amounts are integers (cents); an average is an exact fraction       *)
(*     [num, den] in lowest terms;                                         *)
(*   - dates are day numbers 1..MaxDate;                                   *)
(*   - names are sequences of one-character strings, so that ILIKE and     *)
(*     ORDER BY can be computed;                                           *)
(*   - nullable strings use NullStr.                                       *)
(***************************************************************************)
EXTENDS Integers, Sequences, FiniteSets, TLC

VARIABLES db, req, resp, reads

vars == <<db, req, resp, reads>>

\* ------------------------------------------------------------------ bounds
MaxId == 4
MaxDate == 3
MaxPage == 2
MaxPageSize == 2
MaxIds == 2
MaxMetaPage == 4
MaxMetaPageSize == 4
MaxMetaItems == 9

\* ------------------------------------------------------- encoding of NULLs
NoId == 0
NoDate == 0
NoAmount == 0 - 1
NullStr == "NULL"
NoSearch == << >>

\* ------------------------------------------------------------- utilities
\* the sum of f[x] over the x of S
RECURSIVE Sum(_, _)
Sum(f, S) ==
  IF S = {} THEN 0
  ELSE LET x == CHOOSE y \in S : TRUE IN f[x] + Sum(f, S \ {x})

Abs(n) == IF n < 0 THEN 0 - n ELSE n

RECURSIVE Gcd(_, _)
Gcd(a, b) == IF b = 0 THEN a ELSE Gcd(b, a % b)

\* an exact fraction n/d (d > 0) in lowest terms
Frac(n, d) ==
  LET g == Gcd(Abs(n), d) IN [num |-> n \div g, den |-> d \div g]

Zero == [num |-> 0, den |-> 1]

Min(S) == CHOOSE x \in S : \A y \in S : x <= y
Max(S) == CHOOSE x \in S : \A y \in S : x >= y

Range(s) == {s[i] : i \in 1..Len(s)}

\* the sequences over S of length 1..n
SeqsUpTo(S, n) == UNION {[1..k -> S] : k \in 1..n}

\* every enumeration of the set S that respects the total preorder leq, a
\* Boolean function on S \X S:
\* the orders in which an ORDER BY may return the rows (ties are not ordered)
SortedSeqs(S, leq) ==
  {s \in [1..Cardinality(S) -> S] :
     /\ \A i, j \in 1..Cardinality(S) : i # j => s[i] # s[j]
     /\ \A i, j \in 1..Cardinality(S) : i < j => leq[s[i], s[j]]}

\* query.offset(o).limit(l) applied to the ordered rows
OffsetLimit(s, o, l) ==
  [i \in 1..(IF Len(s) - o < 0 THEN 0 ELSE IF Len(s) - o < l THEN Len(s) - o ELSE l)
     |-> s[o + i]]

\* ---------------------------------------------------------------- strings
Letters ==
  <<"A", "B", "C", "D", "E", "H", "I", "K", "L", "M", "N", "O", "P", "R", "S", "T", "U", "W">>
Lower ==
  <<"a", "b", "c", "d", "e", "h", "i", "k", "l", "m", "n", "o", "p", "r", "s", "t", "u", "w">>

\* str.upper() of one character
UpperChar(ch) ==
  IF \E i \in 1..Len(Lower) : Lower[i] = ch
  THEN Letters[CHOOSE i \in 1..Len(Lower) : Lower[i] = ch]
  ELSE ch

\* str.upper()
Upper(s) == [i \in 1..Len(s) |-> UpperChar(s[i])]

\* the collation rank of a character: case-insensitive letters first
CharRank(ch) ==
  IF \E i \in 1..Len(Letters) : Letters[i] = UpperChar(ch)
  THEN CHOOSE i \in 1..Len(Letters) : Letters[i] = UpperChar(ch)
  ELSE Len(Letters) + 1

\* lexicographic s <= t
RECURSIVE StrLeq(_, _)
StrLeq(s, t) ==
  IF s = << >> THEN TRUE
  ELSE IF t = << >> THEN FALSE
  ELSE IF CharRank(Head(s)) < CharRank(Head(t)) THEN TRUE
  ELSE IF CharRank(Head(s)) > CharRank(Head(t)) THEN FALSE
  ELSE StrLeq(Tail(s), Tail(t))

\* SQL  s LIKE pattern : % matches any run, _ any one character and every
\* other character itself
RECURSIVE Like(_, _)
Like(s, pat) ==
  IF pat = << >> THEN s = << >>
  ELSE IF Head(pat) = "%"
       THEN \/ Like(s, Tail(pat))
            \/ (s # << >> /\ Like(Tail(s), pat))
  ELSE IF s = << >> THEN FALSE
  ELSE /\ (Head(pat) = "_" \/ Head(pat) = Head(s))
       /\ Like(Tail(s), Tail(pat))

\* SQL  s ILIKE pattern : LIKE on the case-folded operands
ILike(s, pat) == Like(Upper(s), Upper(pat))

\* f"%{search}%"
SearchPattern(q) == <<"%">> \o q \o <<"%">>

\* str.upper() of the short codes (states, offices, parties) of the requests
UpperCode(st) ==
  CASE st = "md" -> "MD"
    [] st = "va" -> "VA"
    [] st = "h" -> "H"
    [] st = "s" -> "S"
    [] st = "dem" -> "DEM"
    [] st = "rep" -> "REP"
    [] st = "ind" -> "IND"
    [] OTHER -> st

\* ------------------------------------------------------------- the tables
\* gold_candidate
CandidateC1 ==
  [id |-> 1, name |-> <<"B", "A", "K", "E", "R">>, office |-> "H", state |-> "MD",
   district |-> "01", party |-> "DEM", is_active |-> TRUE]
CandidateC2 ==
  [id |-> 2, name |-> <<"A", "D", "A", "M", "S">>, office |-> "S", state |-> "MD",
   district |-> NullStr, party |-> "REP", is_active |-> FALSE]
CandidateC3 ==
  [id |-> 3, name |-> <<"C", "L", "A", "R", "K">>, office |-> "P", state |-> NullStr,
   district |-> NullStr, party |-> "DEM", is_active |-> TRUE]

CandidateTables ==
  {{}, {CandidateC1}, {CandidateC1, CandidateC2}, {CandidateC1, CandidateC2, CandidateC3}}

\* gold_committee
CommitteePool ==
  {[id |-> 1, name |-> <<"B", "A", "K", "E", "R">>, committee_type |-> "H",
    state |-> "MD", party |-> "DEM", city |-> "BOWIE", is_active |-> TRUE,
    candidate_id |-> 1],
   [id |-> 2, name |-> <<"A", "D", "A", "M", "S">>, committee_type |-> "S",
    state |-> "MD", party |-> "REP", city |-> NullStr, is_active |-> FALSE,
    candidate_id |-> 2],
   [id |-> 3, name |-> <<"A", "C", "M", "E">>, committee_type |-> "Q",
    state |-> "VA", party |-> NullStr, city |-> NullStr, is_active |-> TRUE,
    candidate_id |-> NoId]}

\* gold_contributor
ContributorTable ==
  {[id |-> 1, name |-> <<"D", "E", "A", "N">>, city |-> "BOWIE", state |-> "MD",
    zip |-> "20715", entity_type |-> "IND", employer |-> "ACME",
    occupation |-> NullStr],
   [id |-> 2, name |-> <<"A", "C", "M", "E">>, city |-> NullStr, state |-> "VA",
    zip |-> NullStr, entity_type |-> "PAC", employer |-> NullStr,
    occupation |-> NullStr]}

\* gold_contribution
ContributionPool ==
  {[id |-> 1, contributor_id |-> 1, recipient_candidate_id |-> 1,
    recipient_committee_id |-> 1, amount |-> 10, contribution_date |-> 1,
    contribution_type |-> "15", is_earmark_receipt |-> FALSE,
    source_transaction_id |-> <<"S", "A", "1">>, memo_text |-> NullStr],
   [id |-> 2, contributor_id |-> 2, recipient_candidate_id |-> 1,
    recipient_committee_id |-> 1, amount |-> 25, contribution_date |-> 3,
    contribution_type |-> "15", is_earmark_receipt |-> FALSE,
    source_transaction_id |-> <<"S", "A", "2">>, memo_text |-> NullStr],
   [id |-> 3, contributor_id |-> 1, recipient_candidate_id |-> 1,
    recipient_committee_id |-> 1, amount |-> 15, contribution_date |-> 2,
    contribution_type |-> "15E", is_earmark_receipt |-> TRUE,
    source_transaction_id |-> <<"S", "A", "3", "E">>,
    memo_text |-> <<"E", "a", "r", "m", "a", "r", "k">>],
   [id |-> 4, contributor_id |-> 2, recipient_candidate_id |-> 2,
    recipient_committee_id |-> 2, amount |-> 0 - 10, contribution_date |-> 2,
    contribution_type |-> "22Y", is_earmark_receipt |-> FALSE,
    source_transaction_id |-> <<"S", "B", "4">>, memo_text |-> NullStr],
   [id |-> 5, contributor_id |-> 1, recipient_candidate_id |-> NoId,
    recipient_committee_id |-> 3, amount |-> 40, contribution_date |-> 3,
    contribution_type |-> "15", is_earmark_receipt |-> FALSE,
    source_transaction_id |-> <<"S", "A", "5">>, memo_text |-> NullStr]}

\* ---------------------------------------------------- materialized views
\* The views are defined outside this code base.  The services document
\* them as the per-key aggregates of the contributions that are not
\* earmark/conduit records; the live path states the same filter.
\* func.coalesce(memo_text, "")
CoalesceStr(s) == IF s = NullStr THEN << >> ELSE s

\* the conduit filter of the live path: the contribution is counted
NotConduit(k) ==
  /\ k.is_earmark_receipt = FALSE
  /\ ~Like(k.source_transaction_id, <<"%", "E">>)
  /\ ~Like(Upper(CoalesceStr(k.memo_text)),
           <<"%", "E", "A", "R", "M", "A", "R", "K", "%">>)
  /\ ~Like(Upper(CoalesceStr(k.memo_text)),
           <<"%", "C", "O", "N", "D", "U", "I", "T", "%">>)
  /\ ~Like(Upper(CoalesceStr(k.memo_text)),
           <<"%", "A", "T", "T", "R", "I", "B", "U", "T", "I", "O", "N", " ",
             "B", "E", "L", "O", "W", "%">>)

Amounts(ks) == [k \in ks |-> k.amount]

\* mv_contributor_candidate_stats
MvContributorCandidateStats(ks) ==
  LET counted == {k \in ks : NotConduit(k) /\ k.recipient_candidate_id # NoId}
      keys == {<<k.contributor_id, k.recipient_candidate_id>> : k \in counted}
      of(key) == {k \in counted : /\ k.contributor_id = key[1]
                                  /\ k.recipient_candidate_id = key[2]}
  IN {[contributor_id |-> key[1], candidate_id |-> key[2],
       contribution_count |-> Cardinality(of(key)),
       total_amount |-> Sum(Amounts(of(key)), of(key)),
       first_contribution_date |-> Min({k.contribution_date : k \in of(key)}),
       last_contribution_date |-> Max({k.contribution_date : k \in of(key)})]
      : key \in keys}

\* mv_contributor_committee_stats
MvContributorCommitteeStats(ks) ==
  LET counted == {k \in ks : NotConduit(k) /\ k.recipient_committee_id # NoId}
      keys == {<<k.contributor_id, k.recipient_committee_id>> : k \in counted}
      of(key) == {k \in counted : /\ k.contributor_id = key[1]
                                  /\ k.recipient_committee_id = key[2]}
  IN {[contributor_id |-> key[1], committee_id |-> key[2],
       contribution_count |-> Cardinality(of(key)),
       total_amount |-> Sum(Amounts(of(key)), of(key)),
       first_contribution_date |-> Min({k.contribution_date : k \in of(key)}),
       last_contribution_date |-> Max({k.contribution_date : k \in of(key)})]
      : key \in keys}

\* mv_contributor_stats
MvContributorStats(ks) ==
  LET counted == {k \in ks : NotConduit(k)}
      of(id) == {k \in counted : k.contributor_id = id}
  IN {[contributor_id |-> id,
       total_contributions |-> Cardinality(of(id)),
       total_amount |-> Sum(Amounts(of(id)), of(id)),
       unique_recipients |-> Cardinality({k.recipient_committee_id : k \in of(id)}),
       avg_contribution |-> Frac(Sum(Amounts(of(id)), of(id)), Cardinality(of(id))),
       first_contribution_date |-> Min({k.contribution_date : k \in of(id)}),
       last_contribution_date |-> Max({k.contribution_date : k \in of(id)})]
      : id \in {k.contributor_id : k \in counted}}

\* mv_candidate_stats
MvCandidateStats(ks) ==
  LET counted == {k \in ks : NotConduit(k) /\ k.recipient_candidate_id # NoId}
      of(id) == {k \in counted : k.recipient_candidate_id = id}
  IN {[candidate_id |-> id,
       total_contributions |-> Cardinality(of(id)),
       total_amount |-> Sum(Amounts(of(id)), of(id)),
       unique_contributors |-> Cardinality({k.contributor_id : k \in of(id)})]
      : id \in {k.recipient_candidate_id : k \in counted}}

\* ------------------------------------------------------------ the database
\* the committees whose candidate exists (foreign key committee -> candidate)
CommitteesFor(cs) ==
  {m \in CommitteePool : m.candidate_id = NoId \/ \E c \in cs : c.id = m.candidate_id}

\* the contributions whose recipients exist (foreign keys of gold_contribution)
ContributionsFor(cs) ==
  {k \in ContributionPool :
     /\ k.recipient_candidate_id = NoId \/ \E c \in cs : c.id = k.recipient_candidate_id
     /\ \E m \in CommitteesFor(cs) : m.id = k.recipient_committee_id}

Database(cs, ks) ==
  [candidate |-> cs,
   committee |-> CommitteesFor(cs),
   contributor |-> ContributorTable,
   contribution |-> ks,
   mv_contributor_candidate_stats |-> MvContributorCandidateStats(ks),
   mv_contributor_committee_stats |-> MvContributorCommitteeStats(ks),
   mv_contributor_stats |-> MvContributorStats(ks),
   mv_candidate_stats |-> MvCandidateStats(ks)]

Databases ==
  UNION {{Database(cs, ks) : ks \in SUBSET ContributionsFor(cs)} : cs \in CandidateTables}

Idle == [status |-> 0]
NoRequest == [op |-> "none"]

Init ==
  /\ db \in Databases
  /\ req = NoRequest
  /\ resp = Idle
  /\ reads = {}

\* ------------------------------------------------------- SQL aggregates
\* A nullable aggregate is the empty set (NULL) or a singleton.
SqlCount(ks) == Cardinality(ks)
SqlSumAmount(ks) == IF ks = {} THEN {} ELSE {Sum(Amounts(ks), ks)}
SqlAvgAmount(ks) == IF ks = {} THEN {} ELSE {Frac(Sum(Amounts(ks), ks), Cardinality(ks))}
\* variant: COUNT(contributor_id) without DISTINCT
SqlCountContributor(ks) == Cardinality(ks)

SqlCountDistinctContributor(ks) == Cardinality({k.contributor_id : k \in ks})
Coalesce(v, dflt) == IF v = {} THEN dflt ELSE CHOOSE x \in v : TRUE

None == [none |-> TRUE]

\* -------------------------------------------------------- common schemas
\* variant: total_pages rounds down
create_pagination_meta_floor(page, page_size, total_items) ==
  LET total_pages == IF total_items > 0 THEN total_items \div page_size ELSE 0
  IN [page |-> page,
      page_size |-> page_size,
      total_items |-> total_items,
      total_pages |-> total_pages,
      has_next |-> page < total_pages,
      has_prev |-> page > 1]

create_pagination_meta(page, page_size, total_items) ==
  LET total_pages == IF total_items > 0
                     THEN (total_items + page_size - 1) \div page_size
                     ELSE 0
  IN [page |-> page,
      page_size |-> page_size,
      total_items |-> total_items,
      total_pages |-> total_pages,
      has_next |-> page < total_pages,
      has_prev |-> page > 1]

\* PaginationParams.offset
PaginationOffset(page, page_size) == (page - 1) * page_size

\* ------------------------------------------------------ CandidateService
get_candidate_by_id(d, candidate_id) ==
  IF \E c \in d.candidate : c.id = candidate_id
  THEN CHOOSE c \in d.candidate : c.id = candidate_id
  ELSE None

get_candidate_stats(d, candidate_id) ==
  IF get_candidate_by_id(d, candidate_id) = None THEN None
  ELSE LET ks == {k \in d.contribution : k.recipient_candidate_id = candidate_id}
       IN [candidate_id |-> candidate_id,
           total_contributions |-> SqlCount(ks),
           total_amount |-> Coalesce(SqlSumAmount(ks), 0),
           unique_contributors |-> SqlCountDistinctContributor(ks),
           avg_contribution |-> Coalesce(SqlAvgAmount(ks), Zero)]

\* variant: no zero statistics for the ids without a row of the grouped query
get_bulk_candidate_stats_rows(d, candidate_ids) ==
  IF candidate_ids = << >> THEN << >>
  ELSE LET ids == Range(candidate_ids)
           matched == {k \in d.contribution : k.recipient_candidate_id \in ids}
           groups == {k.recipient_candidate_id : k \in matched}
           of(g) == {k \in matched : k.recipient_candidate_id = g}
       IN [id \in groups |->
             [candidate_id |-> id,
              total_contributions |-> SqlCount(of(id)),
              total_amount |-> Coalesce(SqlSumAmount(of(id)), 0),
              unique_contributors |-> SqlCountDistinctContributor(of(id)),
              avg_contribution |-> Coalesce(SqlAvgAmount(of(id)), Zero)]]

\* the dictionary of get_bulk_candidate_stats: the rows of the grouped query,
\* then zero statistics for the ids the query returned no row for
get_bulk_candidate_stats(d, candidate_ids) ==
  IF candidate_ids = << >> THEN << >>
  ELSE LET ids == Range(candidate_ids)
           matched == {k \in d.contribution : k.recipient_candidate_id \in ids}
           groups == {k.recipient_candidate_id : k \in matched}
           of(g) == {k \in matched : k.recipient_candidate_id = g}
       IN [id \in groups \cup ids |->
             IF id \in groups
             THEN [candidate_id |-> id,
                   total_contributions |-> SqlCount(of(id)),
                   total_amount |-> Coalesce(SqlSumAmount(of(id)), 0),
                   unique_contributors |-> SqlCountDistinctContributor(of(id)),
                   avg_contribution |-> Coalesce(SqlAvgAmount(of(id)), Zero)]
             ELSE [candidate_id |-> id,
                   total_contributions |-> 0,
                   total_amount |-> 0,
                   unique_contributors |-> 0,
                   avg_contribution |-> Zero]]

\* dict.get(key)
DictGet(m, key) == IF key \in DOMAIN m THEN m[key] ELSE None

CandidateWithStats(c, stats) ==
  [id |-> c.id, name |-> c.name, office |-> c.office, state |-> c.state,
   district |-> c.district, party |-> c.party, is_active |-> c.is_active,
   stats |-> stats]

\* variant: the candidates are returned in the order of the query
get_batch_candidate_details_by_name(d, candidate_ids, include_stats, candidates) ==
  IF candidate_ids = << >> THEN << >>
  ELSE LET stats_map == IF include_stats
                        THEN get_bulk_candidate_stats(d, candidate_ids)
                        ELSE << >>
       IN [i \in 1..Len(candidates) |->
             CandidateWithStats(candidates[i],
                                IF include_stats THEN DictGet(stats_map, candidates[i].id)
                                ELSE None)]

\* candidates is the list the query returned, ordered by name
get_batch_candidate_details(d, candidate_ids, include_stats, candidates) ==
  IF candidate_ids = << >> THEN << >>
  ELSE LET candidate_map == [id \in {c.id : c \in Range(candidates)} |->
                               CHOOSE c \in Range(candidates) : c.id = id]
           stats_map == IF include_stats
                        THEN get_bulk_candidate_stats(d, candidate_ids)
                        ELSE << >>
           found == SelectSeq(candidate_ids, LAMBDA id : id \in DOMAIN candidate_map)
       IN [i \in 1..Len(found) |->
             CandidateWithStats(candidate_map[found[i]],
                                IF include_stats THEN DictGet(stats_map, found[i])
                                ELSE None)]

NameLeq(a, b) == StrLeq(a.name, b.name)

\* the rows the batch query may return: id IN (ids) ORDER BY name
BatchQuery(d, candidate_ids) ==
  LET rows == {c \in d.candidate : c.id \in Range(candidate_ids)}
  IN SortedSeqs(rows, [p \in rows \X rows |-> NameLeq(p[1], p[2])])

\* the statistics subquery: one row per recipient_candidate_id
StatsSubquery(d) ==
  LET of(g) == {k \in d.contribution : k.recipient_candidate_id = g}
  IN {[candidate_id |-> g,
       total_contributions |-> SqlCount(of(g)),
       total_amount |-> Coalesce(SqlSumAmount(of(g)), 0),
       unique_contributors |-> SqlCountDistinctContributor(of(g)),
       avg_contribution |-> Coalesce(SqlAvgAmount(of(g)), Zero)]
      : g \in {k.recipient_candidate_id : k \in d.contribution}}

\* GoldCandidate LEFT JOIN stats_subquery: stats is {} (NULL columns) or one row
OuterJoinStats(d, c) == {s \in StatsSubquery(d) : s.candidate_id = c.id}

\* the WHERE clauses on the columns of gold_candidate
StateFilters(c, state, offices, parties, district, is_active) ==
  /\ c.state = state
  /\ offices # << >> => c.office \in Range(offices)
  /\ parties # << >> => c.party \in Range(parties)
  /\ (district # NullStr /\ district # "") => c.district = district
  /\ is_active # {} => c.is_active \in is_active

\* stats_subquery.c.total_amount > 0 (not true of a NULL)
TotalAmountPositive(stats) == \E s \in stats : s.total_amount > 0

\* ORDER BY of get_candidates_by_state_with_options, as "a is not after b"
StateOrderLeq(a, b, include_stats, sort_by, order) ==
  IF include_stats /\ sort_by \in {"total_amount", "total_contributions"}
  THEN LET col(r) == {IF sort_by = "total_amount" THEN s.total_amount
                      ELSE s.total_contributions : s \in r.stats}
       IN IF col(a) = {} /\ col(b) = {} THEN NameLeq(a.candidate, b.candidate)
          ELSE IF col(a) = {} THEN FALSE
          ELSE IF col(b) = {} THEN TRUE
          ELSE LET x == CHOOSE v \in col(a) : TRUE
                   y == CHOOSE v \in col(b) : TRUE
               IN IF x = y THEN NameLeq(a.candidate, b.candidate)
                  ELSE IF order = "desc" THEN x > y ELSE x < y
  ELSE IF order = "desc"
       THEN IF a.candidate.office # b.candidate.office
            THEN CharRank(a.candidate.office) > CharRank(b.candidate.office)
            ELSE NameLeq(b.candidate, a.candidate)
       ELSE IF a.candidate.office # b.candidate.office
            THEN CharRank(a.candidate.office) < CharRank(b.candidate.office)
            ELSE NameLeq(a.candidate, b.candidate)

\* the WHERE clause of the item query
StateItemRows(d, state, offices, parties, district, is_active, has_fundraising, include_stats) ==
  {r \in {[candidate |-> c,
           stats |-> IF include_stats THEN OuterJoinStats(d, c) ELSE {}]
          : c \in d.candidate} :
     /\ StateFilters(r.candidate, state, offices, parties, district, is_active)
     /\ (has_fundraising /\ include_stats) => TotalAmountPositive(r.stats)}

\* variant: the count query without the join for has_fundraising
StateCountNoJoin(d, state, offices, parties, district, is_active, has_fundraising, include_stats) ==
  Cardinality({c \in d.candidate :
                 StateFilters(c, state, offices, parties, district, is_active)})

\* the count query
StateCount(d, state, offices, parties, district, is_active, has_fundraising, include_stats) ==
  IF has_fundraising /\ include_stats
  THEN Cardinality({c \in d.candidate :
                      /\ c.state = state
                      /\ TotalAmountPositive(OuterJoinStats(d, c))
                      /\ StateFilters(c, state, offices, parties, district, is_active)})
  ELSE Cardinality({c \in d.candidate :
                      StateFilters(c, state, offices, parties, district, is_active)})

\* row -> CandidateWithStats, a NULL statistic being reported as 0
StateItem(r, include_stats) ==
  CandidateWithStats(
    r.candidate,
    IF include_stats
    THEN IF r.stats = {}
         THEN [candidate_id |-> r.candidate.id, total_contributions |-> 0,
               total_amount |-> 0, unique_contributors |-> 0,
               avg_contribution |-> Zero]
         ELSE LET s == CHOOSE x \in r.stats : TRUE
              IN [candidate_id |-> r.candidate.id,
                  total_contributions |-> s.total_contributions,
                  total_amount |-> s.total_amount,
                  unique_contributors |-> s.unique_contributors,
                  avg_contribution |-> s.avg_contribution]
    ELSE None)

\* `if offset: query.offset(offset)`, `if limit: query.limit(limit)`
OptOffsetLimit(s, offset, limit) ==
  OffsetLimit(s, offset, IF limit = 0 THEN Len(s) ELSE limit)

\* the results the call may return: one per order the database may choose
get_candidates_by_state_with_options(d, state, offices, parties, district, is_active, has_fundraising, include_stats, sort_by, order, limit, offset, return_count) ==
  LET Leq(a, b) == StateOrderLeq(a, b, include_stats, sort_by, order)
      rows == StateItemRows(d, state, offices, parties, district, is_active,
                            has_fundraising, include_stats)
      total_count == IF return_count
                     THEN StateCount(d, state, offices, parties, district, is_active,
                                     has_fundraising, include_stats)
                     ELSE 0
  IN {[items |-> [i \in 1..Len(OptOffsetLimit(ordered, offset, limit)) |->
                    StateItem(OptOffsetLimit(ordered, offset, limit)[i], include_stats)],
       total_count |-> total_count]
      : ordered \in SortedSeqs(rows, 
         [p \in rows \X rows |-> Leq(p[1], p[2])])}

\* ----------------------------------------------------------- the session
\* get_db: the handler runs on a session; nothing is ever committed, and
\* the response is sent with the tables as the session found them.  rd is
\* the set of relations the handler's statements read.
Serve(r, status, body, rd) ==
  /\ resp = Idle
  /\ req' = r
  /\ resp' = [status |-> status, body |-> body]
  /\ reads' = rd
  /\ db' = db

\* the `finally` of get_db: session.close(), the client has the response
CloseSession ==
  /\ resp # Idle
  /\ resp' = Idle
  /\ req' = NoRequest
  /\ reads' = {}
  /\ db' = db

\* --------------------------------------------------------- request inputs
Ids == 1..MaxId
Pages == 1..MaxPage
PageSizes == 1..MaxPageSize
IdLists == SeqsUpTo(Ids, MaxIds)
SortByParams == {"name", "total_amount", "total_contributions"}
OrderParams == {"asc", "desc"}

\* office.split(","), strip and upper of every part
ParseCodes(parts) == [i \in 1..Len(parts) |-> UpperCode(parts[i])]

\* ------------------------------------------------------ routers/candidate
router_get_candidate(candidate_id) ==
  LET candidate == get_candidate_by_id(db, candidate_id)
  IN Serve([op |-> "get_candidate", candidate_id |-> candidate_id],
           IF candidate = None THEN 404 ELSE 200, candidate, {"gold_candidate"})

router_get_candidate_stats(candidate_id) ==
  LET stats == get_candidate_stats(db, candidate_id)
  IN Serve([op |-> "get_candidate_stats", candidate_id |-> candidate_id],
           IF stats = None THEN 404 ELSE 200, stats,
           IF stats = None THEN {"gold_candidate"}
           ELSE {"gold_candidate", "gold_contribution"})

\* variant: the handler stores the statistics it computed in mv_candidate_stats
router_get_bulk_candidate_stats_caching(candidate_ids) ==
  LET stats == get_bulk_candidate_stats(db, candidate_ids)
  IN /\ resp = Idle
     /\ req' = [op |-> "get_bulk_candidate_stats", candidate_ids |-> candidate_ids]
     /\ resp' = [status |-> 200, body |-> [stats |-> stats]]
     /\ reads' = {"gold_contribution"}
     /\ db' = [db EXCEPT !.mv_candidate_stats =
                          {[candidate_id |-> id,
                            total_contributions |-> stats[id].total_contributions,
                            total_amount |-> stats[id].total_amount,
                            unique_contributors |-> stats[id].unique_contributors]
                           : id \in DOMAIN stats}]

router_get_bulk_candidate_stats(candidate_ids) ==
  Serve([op |-> "get_bulk_candidate_stats", candidate_ids |-> candidate_ids],
        200, [stats |-> get_bulk_candidate_stats(db, candidate_ids)],
        {"gold_contribution"})

router_get_batch_candidate_details(ids, include_stats) ==
  \E candidates \in BatchQuery(db, ids) :
    Serve([op |-> "get_batch_candidate_details", ids |-> ids,
           include_stats |-> include_stats],
          200,
          [candidates |-> get_batch_candidate_details(db, ids, include_stats, candidates)],
          IF include_stats THEN {"gold_candidate", "gold_contribution"}
          ELSE {"gold_candidate"})

\* the query strings drawn for GET /candidates/by-state/{state}
ByStateRequests ==
  {[op |-> "list_candidates_by_state", state |-> "MD", office |-> << >>,
    party |-> << >>, district |-> NullStr, is_active |-> {},
    has_fundraising |-> hf, include_stats |-> inc, sort_by |-> sb, order |-> ord,
    page |-> pg, page_size |-> ps]
   : hf \in BOOLEAN, inc \in BOOLEAN, sb \in SortByParams, ord \in OrderParams,
     pg \in Pages, ps \in PageSizes}
  \cup
  {[op |-> "list_candidates_by_state", state |-> st, office |-> off,
    party |-> pa, district |-> di, is_active |-> act,
    has_fundraising |-> hf, include_stats |-> inc, sort_by |-> "name",
    order |-> "desc", page |-> 1, page_size |-> MaxPageSize]
   : st \in {"md", "VA"}, off \in {<< >>, <<"h">>, <<"S", "H">>},
     pa \in {<< >>, <<"dem">>}, di \in {NullStr, "01"}, act \in {{}, {TRUE}},
     hf \in BOOLEAN, inc \in BOOLEAN}
  \cup
  {[op |-> "list_candidates_by_state", state |-> "MD", office |-> << >>,
    party |-> << >>, district |-> NullStr, is_active |-> {},
    has_fundraising |-> FALSE, include_stats |-> FALSE, sort_by |-> sb,
    order |-> ord, page |-> 1, page_size |-> 1]
   : sb \in {"amount"}, ord \in {"asc", "up"}}

router_list_candidates_by_state(r) ==
  IF r.sort_by \notin {"name", "total_amount", "total_contributions"}
     \/ r.order \notin {"asc", "desc"}
  THEN Serve(r, 400, None, {})
  ELSE \E res \in get_candidates_by_state_with_options(
                    db, UpperCode(r.state), ParseCodes(r.office), ParseCodes(r.party),
                    r.district, r.is_active, r.has_fundraising, r.include_stats,
                    r.sort_by, r.order, r.page_size,
                    PaginationOffset(r.page, r.page_size), TRUE) :
         Serve(r, 200,
               [items |-> res.items,
                meta |-> create_pagination_meta(r.page, r.page_size, res.total_count)],
               IF r.include_stats THEN {"gold_candidate", "gold_contribution"}
               ELSE {"gold_candidate"})

\* GET /candidates/by-state/{state}/us-house
ByStateHouseRequests ==
  {[op |-> "list_house_candidates_by_state", state |-> "md", district |-> di,
    party |-> << >>, is_active |-> {}, has_fundraising |-> hf,
    include_stats |-> inc, sort_by |-> sb, order |-> "desc", page |-> 1,
    page_size |-> MaxPageSize]
   : di \in {<< >>, <<"01">>, <<"01", "02">>}, hf \in BOOLEAN, inc \in BOOLEAN,
     sb \in {"name", "total"}}

router_list_house_candidates_by_state(r) ==
  IF r.sort_by \notin {"name", "total_amount", "total_contributions"}
     \/ r.order \notin {"asc", "desc"}
     \/ Len(r.district) > 1
  THEN Serve(r, 400, None, {})
  ELSE \E res \in get_candidates_by_state_with_options(
                    db, UpperCode(r.state), <<"H">>, ParseCodes(r.party),
                    IF Len(r.district) = 1 THEN r.district[1] ELSE NullStr,
                    r.is_active, r.has_fundraising, r.include_stats,
                    r.sort_by, r.order, r.page_size,
                    PaginationOffset(r.page, r.page_size), TRUE) :
         Serve(r, 200,
               [items |-> res.items,
                meta |-> create_pagination_meta(r.page, r.page_size, res.total_count)],
               IF r.include_stats THEN {"gold_candidate", "gold_contribution"}
               ELSE {"gold_candidate"})

\* GET /candidates/by-state/{state}/us-senate
ByStateSenateRequests ==
  {[op |-> "list_senate_candidates_by_state", state |-> "md", party |-> pa,
    is_active |-> {}, has_fundraising |-> hf, include_stats |-> inc,
    sort_by |-> "name", order |-> ord, page |-> 1, page_size |-> MaxPageSize]
   : pa \in {<< >>, <<"rep">>}, hf \in BOOLEAN, inc \in BOOLEAN,
     ord \in {"asc", "down"}}

router_list_senate_candidates_by_state(r) ==
  IF r.sort_by \notin {"name", "total_amount", "total_contributions"}
     \/ r.order \notin {"asc", "desc"}
  THEN Serve(r, 400, None, {})
  ELSE \E res \in get_candidates_by_state_with_options(
                    db, UpperCode(r.state), <<"S">>, ParseCodes(r.party),
                    NullStr, r.is_active, r.has_fundraising, r.include_stats,
                    r.sort_by, r.order, r.page_size,
                    PaginationOffset(r.page, r.page_size), TRUE) :
         Serve(r, 200,
               [items |-> res.items,
                meta |-> create_pagination_meta(r.page, r.page_size, res.total_count)],
               IF r.include_stats THEN {"gold_candidate", "gold_contribution"}
               ELSE {"gold_candidate"})

\* ------------------------------------------------------ CommitteeService
\* None, or the pair <<committee, candidate or None>>
get_committee_by_id(d, committee_id, include_candidate) ==
  IF ~\E m \in d.committee : m.id = committee_id THEN None
  ELSE LET committee == CHOOSE m \in d.committee : m.id = committee_id
       IN <<committee,
            IF include_candidate /\ \E c \in d.candidate : c.id = committee.candidate_id
            THEN CHOOSE c \in d.candidate : c.id = committee.candidate_id
            ELSE None>>

get_committee_stats(d, committee_id) ==
  IF get_committee_by_id(d, committee_id, FALSE) = None THEN None
  ELSE LET ks == {k \in d.contribution : k.recipient_committee_id = committee_id}
       IN [committee_id |-> committee_id,
           total_contributions_received |-> SqlCount(ks),
           total_amount_received |-> Coalesce(SqlSumAmount(ks), 0),
           unique_contributors |-> SqlCountDistinctContributor(ks),
           avg_contribution |-> Coalesce(SqlAvgAmount(ks), Zero)]

\* CommitteeFilters.to_filter_dict and the where(column == value) loop: the
\* filters given, compared for equality; min_total_received is left out
CommitteeFilterDict(m, filters) ==
  /\ filters.state = NullStr \/ m.state = filters.state
  /\ filters.committee_type = NullStr \/ m.committee_type = filters.committee_type
  /\ filters.party = NullStr \/ m.party = filters.party
  /\ filters.is_active = {} \/ m.is_active \in filters.is_active
  /\ filters.candidate_id = NoId \/ m.candidate_id = filters.candidate_id

\* the ORDER BY of list_committees with stats: nulls last, then name
CommitteeOrderLeq(a, b, sort_by, order) ==
  LET CommitteeSortKey(row, by) ==
        IF by = "total_received" THEN row.stats.total_amount_received
        ELSE row.stats.total_contributions_received
  IN
  IF sort_by \in {"total_received", "total_contributions"}
  THEN IF a.stats = None /\ b.stats = None
       THEN StrLeq(a.committee.name, b.committee.name)
       ELSE IF a.stats = None THEN FALSE
       ELSE IF b.stats = None THEN TRUE
       ELSE IF CommitteeSortKey(a, sort_by) = CommitteeSortKey(b, sort_by)
            THEN StrLeq(a.committee.name, b.committee.name)
       ELSE IF order = "desc"
            THEN CommitteeSortKey(a, sort_by) > CommitteeSortKey(b, sort_by)
            ELSE CommitteeSortKey(a, sort_by) < CommitteeSortKey(b, sort_by)
  ELSE IF order = "desc" THEN StrLeq(b.committee.name, a.committee.name)
       ELSE StrLeq(a.committee.name, b.committee.name)

\* the results list_committees can return: [committees, total_count]; the
\* committees are rows [committee, stats] with stats None unless include_stats
list_committees(d, filters, offset, limit, include_stats, sort_by, order) ==
  LET selected == {m \in d.committee : CommitteeFilterDict(m, filters)}
      \* the outer join with the stats subquery: None without a row
      CommitteeStatsRow(dd, m) ==
        LET ks == {k \in dd.contribution : k.recipient_committee_id = m.id}
        IN [committee |-> m,
            stats |-> IF ks = {} THEN None
                      ELSE [total_contributions_received |-> SqlCount(ks),
                            total_amount_received |-> Coalesce(SqlSumAmount(ks), 0),
                            unique_contributors |-> SqlCountDistinctContributor(ks),
                            avg_contribution |-> Coalesce(SqlAvgAmount(ks), Zero)]]
      rows == {IF include_stats THEN CommitteeStatsRow(d, m)
               ELSE [committee |-> m, stats |-> None] : m \in selected}
      by == IF include_stats THEN sort_by ELSE "name"
      leq == [p \in rows \X rows |-> CommitteeOrderLeq(p[1], p[2], by, order)]
  IN {[committees |-> OffsetLimit(s, offset, limit),
       total_count |-> Cardinality(selected)] : s \in SortedSeqs(rows, leq)}

\* ------------------------------------------------------ routers/committee
router_get_committee(committee_id, include_candidate) ==
  LET result == get_committee_by_id(db, committee_id, include_candidate)
  IN Serve([op |-> "get_committee", committee_id |-> committee_id,
            include_candidate |-> include_candidate],
           IF result = None THEN 404 ELSE 200,
           IF result = None THEN None
           ELSE [id |-> result[1].id, name |-> result[1].name,
                 committee_type |-> result[1].committee_type,
                 party |-> result[1].party, state |-> result[1].state,
                 city |-> result[1].city, is_active |-> result[1].is_active,
                 candidate_id |-> result[1].candidate_id,
                 candidate |-> result[2]],
           IF include_candidate THEN {"gold_committee", "gold_candidate"}
           ELSE {"gold_committee"})

router_get_committee_stats(committee_id) ==
  LET stats == get_committee_stats(db, committee_id)
  IN Serve([op |-> "get_committee_stats", committee_id |-> committee_id],
           IF stats = None THEN 404 ELSE 200, stats,
           IF stats = None THEN {"gold_committee"}
           ELSE {"gold_committee", "gold_contribution"})

\* CommitteeList.model_validate
CommitteeList(m) ==
  [id |-> m.id, name |-> m.name, committee_type |-> m.committee_type,
   party |-> m.party, state |-> m.state, city |-> m.city,
   is_active |-> m.is_active, candidate_id |-> m.candidate_id]

\* the query strings drawn for GET /committees
ListCommitteesRequests ==
  {[op |-> "list_committees", state |-> st, committee_type |-> ty, party |-> NullStr,
    is_active |-> act, candidate_id |-> cid, min_total_received |-> mtr,
    page |-> pg, page_size |-> ps]
   : st \in {NullStr, "MD"}, ty \in {NullStr, "Q"}, act \in {{}, {TRUE}},
     cid \in {NoId, 1}, mtr \in {NoAmount, 0, 20}, pg \in Pages, ps \in PageSizes}

router_list_committees(r) ==
  \E res \in list_committees(db, r, PaginationOffset(r.page, r.page_size),
                             r.page_size, FALSE, "name", "asc") :
    Serve(r, 200,
          [items |-> [i \in 1..Len(res.committees) |-> CommitteeList(res.committees[i].committee)],
           meta |-> create_pagination_meta(r.page, r.page_size, res.total_count)],
          {"gold_committee"})

\* ---------------------------------------------------- ContributorService
get_contributor_by_id(d, contributor_id) ==
  IF \E p \in d.contributor : p.id = contributor_id
  THEN CHOOSE p \in d.contributor : p.id = contributor_id
  ELSE None

\* variant: no row of the view for the contributor is reported as not found
get_contributor_stats_strict(d, contributor_id) ==
  IF get_contributor_by_id(d, contributor_id) = None THEN None
  ELSE LET result == {s \in d.mv_contributor_stats : s.contributor_id = contributor_id}
       IN IF result = {} THEN None
          ELSE LET s == CHOOSE x \in result : TRUE
               IN [contributor_id |-> contributor_id,
                   total_contributions |-> s.total_contributions,
                   total_amount |-> s.total_amount,
                   unique_recipients |-> s.unique_recipients,
                   avg_contribution |-> s.avg_contribution,
                   first_contribution_date |-> s.first_contribution_date,
                   last_contribution_date |-> s.last_contribution_date]

\* reads mv_contributor_stats
get_contributor_stats(d, contributor_id) ==
  IF get_contributor_by_id(d, contributor_id) = None THEN None
  ELSE LET result == {s \in d.mv_contributor_stats : s.contributor_id = contributor_id}
       IN IF result = {}
          THEN [contributor_id |-> contributor_id, total_contributions |-> 0,
                total_amount |-> 0, unique_recipients |-> 0,
                avg_contribution |-> Zero, first_contribution_date |-> NoDate,
                last_contribution_date |-> NoDate]
          ELSE LET s == CHOOSE x \in result : TRUE
               IN [contributor_id |-> contributor_id,
                   total_contributions |-> s.total_contributions,
                   total_amount |-> s.total_amount,
                   unique_recipients |-> s.unique_recipients,
                   avg_contribution |-> s.avg_contribution,
                   first_contribution_date |-> s.first_contribution_date,
                   last_contribution_date |-> s.last_contribution_date]

\* x before-or-with y under ORDER BY col ASC / DESC, for integer columns
IntLeq(x, y, desc) == IF desc THEN x >= y ELSE x <= y
\* the same for names
NameColLeq(x, y, desc) == IF desc THEN StrLeq(y, x) ELSE StrLeq(x, y)

\* the lists the query may return
get_contributor_contributions(d, contributor_id, limit, sort_by, sort_direction, start_date, end_date) ==
  LET rows == {[id |-> k.id, contributor_id |-> k.contributor_id,
                recipient_committee_id |-> k.recipient_committee_id,
                committee_name |-> m.name, committee_type |-> m.committee_type,
                committee_state |-> m.state, committee_party |-> m.party,
                amount |-> k.amount, contribution_date |-> k.contribution_date,
                contribution_type |-> k.contribution_type]
               : <<k, m>> \in {km \in d.contribution \X d.committee :
                                 /\ km[1].recipient_committee_id = km[2].id
                                 /\ km[1].contributor_id = contributor_id
                                 /\ start_date # NoDate =>
                                      km[1].contribution_date >= start_date
                                 /\ end_date # NoDate =>
                                      km[1].contribution_date <= end_date}}
      desc == sort_direction # "asc"
      Leq(a, b) == CASE sort_by = "recipient" ->
                          NameColLeq(a.committee_name, b.committee_name, desc)
                     [] sort_by = "date" ->
                          IntLeq(a.contribution_date, b.contribution_date, desc)
                     [] OTHER -> IntLeq(a.amount, b.amount, desc)
  IN {OffsetLimit(ordered, 0, limit) : ordered \in SortedSeqs(rows, 
         [p \in rows \X rows |-> Leq(p[1], p[2])])}

\* reads mv_contributor_committee_stats; the pairs <<recipients, total_count>>
get_contributor_recipients(d, contributor_id, sort_by, sort_direction) ==
  LET rows == {[committee_id |-> m.id, committee_name |-> m.name,
                committee_type |-> m.committee_type, committee_state |-> m.state,
                committee_party |-> m.party,
                contribution_count |-> mv.contribution_count,
                total_amount |-> mv.total_amount,
                first_contribution_date |-> mv.first_contribution_date,
                last_contribution_date |-> mv.last_contribution_date]
               : <<mv, m>> \in {x \in d.mv_contributor_committee_stats \X d.committee :
                                  /\ x[2].id = x[1].committee_id
                                  /\ x[1].contributor_id = contributor_id}}
      desc == sort_direction # "asc"
      Leq(a, b) ==
        CASE sort_by = "committee_name" ->
               NameColLeq(a.committee_name, b.committee_name, desc)
          [] sort_by = "contribution_count" ->
               IntLeq(a.contribution_count, b.contribution_count, desc)
          [] sort_by = "first_date" ->
               IntLeq(a.first_contribution_date, b.first_contribution_date, desc)
          [] sort_by = "last_date" ->
               IntLeq(a.last_contribution_date, b.last_contribution_date, desc)
          [] OTHER -> IntLeq(a.total_amount, b.total_amount, desc)
      total_count == Cardinality({mv \in d.mv_contributor_committee_stats :
                                    mv.contributor_id = contributor_id})
  IN {<<ordered, total_count>> : ordered \in SortedSeqs(rows, 
         [p \in rows \X rows |-> Leq(p[1], p[2])])}

\* ---------------------------------------------------- routers/contributor
router_get_contributor(contributor_id) ==
  LET contributor == get_contributor_by_id(db, contributor_id)
  IN Serve([op |-> "get_contributor", contributor_id |-> contributor_id],
           IF contributor = None THEN 404 ELSE 200, contributor,
           {"gold_contributor"})

router_get_contributor_stats(contributor_id) ==
  LET stats == get_contributor_stats(db, contributor_id)
  IN Serve([op |-> "get_contributor_stats", contributor_id |-> contributor_id],
           IF stats = None THEN 404 ELSE 200, stats,
           IF stats = None THEN {"gold_contributor"}
           ELSE {"gold_contributor", "mv_contributor_stats"})

ContributionsRequests ==
  {[op |-> "get_contributor_contributions", contributor_id |-> id,
    page_size |-> ps, sort_by |-> sb, sort_direction |-> sd,
    start_date |-> NoDate, end_date |-> NoDate]
   : id \in Ids, ps \in PageSizes, sb \in {"recipient", "date", "amount"},
     sd \in {"asc", "desc"}}
  \cup
  {[op |-> "get_contributor_contributions", contributor_id |-> id,
    page_size |-> MaxPageSize, sort_by |-> "amount", sort_direction |-> "desc",
    start_date |-> sd, end_date |-> ed]
   : id \in Ids, sd \in 0..MaxDate, ed \in 0..MaxDate}

router_get_contributor_contributions(r) ==
  IF get_contributor_by_id(db, r.contributor_id) = None
  THEN Serve(r, 404, None, {"gold_contributor"})
  ELSE \E contributions \in get_contributor_contributions(
                              db, r.contributor_id, r.page_size, r.sort_by,
                              r.sort_direction, r.start_date, r.end_date) :
         Serve(r, 200, [contributions |-> contributions],
               {"gold_contributor", "gold_contribution", "gold_committee"})

RecipientSortParams ==
  {"committee_name", "total_amount", "contribution_count", "first_date", "last_date"}

router_get_contributor_recipients(contributor_id, sort_by, sort_direction) ==
  LET r == [op |-> "get_contributor_recipients", contributor_id |-> contributor_id,
            sort_by |-> sort_by, sort_direction |-> sort_direction]
  IN IF get_contributor_by_id(db, contributor_id) = None
     THEN Serve(r, 404, None, {"gold_contributor"})
     ELSE \E res \in get_contributor_recipients(db, contributor_id, sort_by,
                                                sort_direction) :
            Serve(r, 200,
                  [recipients |-> res[1], meta |-> [total_count |-> res[2]]],
                  {"gold_contributor", "mv_contributor_committee_stats",
                   "gold_committee"})

\* --------------------------------- contributors of a candidate / committee
\* `if state:` and the like: the optional string is given and not empty
Given(v) == v # NullStr /\ v # ""

MinDate(S) == IF S = {} THEN NoDate ELSE Min(S)
MaxOfDates(S) == IF S = {} THEN NoDate ELSE Max(S)

\* the aggregate row of one contributor, the same columns on both paths
AggRow(p, total_amount, contribution_count, first, last) ==
  [contributor_id |-> p.id, contributor_name |-> p.name, city |-> p.city,
   state |-> p.state, zip |-> p.zip, entity_type |-> p.entity_type,
   employer |-> p.employer, occupation |-> p.occupation,
   total_amount |-> total_amount, contribution_count |-> contribution_count,
   first_contribution_date |-> first, last_contribution_date |-> last]

\* the filters on the contributor columns and on the aggregated amount
AggFilters(row, r) ==
  /\ Given(r.state) => row.state = r.state
  /\ Given(r.entity_type) => row.entity_type = r.entity_type
  /\ r.search # NoSearch => ILike(row.contributor_name, SearchPattern(r.search))
  /\ r.min_amount # NoAmount => row.total_amount >= r.min_amount
  /\ r.max_amount # NoAmount => row.total_amount <= r.max_amount

\* sort_column_map[sort_by] with the direction
AggLeq(a, b, sort_by, order) ==
  LET desc == order = "desc"
  IN CASE sort_by = "total_amount" -> IntLeq(a.total_amount, b.total_amount, desc)
       [] sort_by = "contribution_count" ->
            IntLeq(a.contribution_count, b.contribution_count, desc)
       [] sort_by = "name" -> NameColLeq(a.contributor_name, b.contributor_name, desc)
       [] sort_by = "first_date" ->
            IntLeq(a.first_contribution_date, b.first_contribution_date, desc)
       [] sort_by = "last_date" ->
            IntLeq(a.last_contribution_date, b.last_contribution_date, desc)

\* the materialized-view branch; mvrows are the rows of the view for the
\* recipient.  Gives rows (before ordering), total_count and the summary.
MvPath(d, mvrows, r) ==
  LET joined == {AggRow(x[1], x[2].total_amount, x[2].contribution_count,
                        x[2].first_contribution_date, x[2].last_contribution_date)
                 : x \in {y \in d.contributor \X mvrows : y[1].id = y[2].contributor_id}}
      counted == {y \in mvrows \X d.contributor :
                    /\ y[2].id = y[1].contributor_id
                    /\ Given(r.state) => y[2].state = r.state
                    /\ Given(r.entity_type) => y[2].entity_type = r.entity_type
                    /\ r.search # NoSearch => ILike(y[2].name, SearchPattern(r.search))
                    /\ r.min_amount # NoAmount => y[1].total_amount >= r.min_amount
                    /\ r.max_amount # NoAmount => y[1].total_amount <= r.max_amount}
  IN [rows |-> {row \in joined : AggFilters(row, r)},
      total_count |-> Cardinality(counted),
      summary |->
        [total_contributors |-> Cardinality(mvrows),
         total_amount_raised |->
           Coalesce(IF mvrows = {} THEN {}
                    ELSE {Sum([m \in mvrows |-> m.total_amount], mvrows)}, 0),
         total_contributions |->
           Coalesce(IF mvrows = {} THEN {}
                    ELSE {Sum([m \in mvrows |-> m.contribution_count], mvrows)}, 0),
         first_contribution |-> MinDate({m.first_contribution_date : m \in mvrows}),
         last_contribution |-> MaxOfDates({m.last_contribution_date : m \in mvrows})]]

\* variant: the live branch reports the summary without the two dates
LivePathShortSummary(d, base, r) ==
  LET of(p) == {k \in base : k.contributor_id = p.id}
      grouped == {AggRow(p, Sum(Amounts(of(p)), of(p)), SqlCount(of(p)),
                         Min({k.contribution_date : k \in of(p)}),
                         Max({k.contribution_date : k \in of(p)}))
                  : p \in {q \in d.contributor : of(q) # {}}}
      main == {row \in grouped : AggFilters(row, r)}
  IN [rows |-> main,
      total_count |-> Cardinality(main),
      summary |->
        [total_contributors |-> SqlCountDistinctContributor(base),
         total_amount_raised |-> Coalesce(SqlSumAmount(base), 0),
         total_contributions |-> SqlCount(base)]]

\* the live branch; base are the contributions that pass base_filters
LivePath(d, base, r) ==
  LET of(p) == {k \in base : k.contributor_id = p.id}
      grouped == {AggRow(p, Sum(Amounts(of(p)), of(p)), SqlCount(of(p)),
                         Min({k.contribution_date : k \in of(p)}),
                         Max({k.contribution_date : k \in of(p)}))
                  : p \in {q \in d.contributor : of(q) # {}}}
      main == {row \in grouped : AggFilters(row, r)}
  IN [rows |-> main,
      total_count |-> Cardinality(main),
      summary |->
        [total_contributors |-> SqlCountDistinctContributor(base),
         total_amount_raised |-> Coalesce(SqlSumAmount(base), 0),
         total_contributions |-> SqlCount(base),
         first_contribution |-> MinDate({k.contribution_date : k \in base}),
         last_contribution |-> MaxOfDates({k.contribution_date : k \in base})]]

\* variant: date_to is an exclusive bound
InDatesExclusive(k, r) ==
  /\ r.date_from # NoDate => k.contribution_date >= r.date_from
  /\ r.date_to # NoDate => k.contribution_date < r.date_to

\* the date clauses `if date_from:` / `if date_to:`
InDates(k, r) ==
  /\ r.date_from # NoDate => k.contribution_date >= r.date_from
  /\ r.date_to # NoDate => k.contribution_date <= r.date_to

ContributionSimple(k) ==
  [id |-> k.id, contribution_date |-> k.contribution_date, amount |-> k.amount,
   contribution_type |-> k.contribution_type]

\* the nested contributions of one contributor: ORDER BY contribution_date DESC
NestedContributions(ks) ==
  LET Leq(a, b) == IntLeq(a.contribution_date, b.contribution_date, TRUE)
  IN {[i \in 1..Len(ordered) |-> ContributionSimple(ordered[i])]
      : ordered \in SortedSeqs(ks, [p \in ks \X ks |-> Leq(p[1], p[2])])}

\* ContributorWithAggregates of the rows of a page; nested[row] are the
\* contributions fetched for the contributor of the row
BuildContributors(page, include_contributions, nested) ==
  IF include_contributions
  THEN {contributors \in [1..Len(page) ->
                            UNION {{[contributions |-> n] @@ page[i]
                                    : n \in NestedContributions(nested[page[i]])}
                                   : i \in 1..Len(page)}] :
          \A i \in 1..Len(page) :
            contributors[i] \in {[contributions |-> n] @@ page[i]
                                 : n \in NestedContributions(nested[page[i]])}}
  ELSE {[i \in 1..Len(page) |-> [contributions |-> None] @@ page[i]]}

\* the meta dictionary built by both services
ContributorsMeta(offset, limit, total_count) ==
  [page |-> IF limit > 0 THEN (offset \div limit) + 1 ELSE 1,
   page_size |-> limit,
   total_items |-> total_count,
   total_pages |-> IF limit > 0 THEN (total_count + limit - 1) \div limit ELSE 1,
   has_next |-> offset + limit < total_count,
   has_prev |-> offset > 0]

\* variant: the view is chosen on date_from alone
use_materialized_view_from(date_from, date_to) == date_from = NoDate

\* use_materialized_view = date_from is None and date_to is None
use_materialized_view(date_from, date_to) == date_from = NoDate /\ date_to = NoDate

\* None when the candidate does not exist, else [results |-> the responses
\* the call may return, each with the relations it read]
get_contributors_by_candidate(d, r, offset, limit) ==
  LET candidate == get_candidate_by_id(d, r.candidate_id)
      path == IF use_materialized_view(r.date_from, r.date_to)
              THEN MvPath(d, {m \in d.mv_contributor_candidate_stats :
                                m.candidate_id = r.candidate_id}, r)
              ELSE LivePath(d, {k \in d.contribution :
                                  /\ k.recipient_candidate_id = r.candidate_id
                                  /\ NotConduit(k)
                                  /\ InDates(k, r)}, r)
      Leq(a, b) == AggLeq(a, b, r.sort_by, r.order)
      nested(row) == {k \in d.contribution :
                        /\ k.contributor_id = row.contributor_id
                        /\ k.recipient_candidate_id = r.candidate_id
                        /\ InDates(k, r)}
  IN IF candidate = None THEN None
     ELSE [results |-> {[body |->
              [candidate |-> [id |-> candidate.id, name |-> candidate.name,
                              office |-> candidate.office, state |-> candidate.state,
                              district |-> candidate.district,
                              party |-> candidate.party],
               summary |-> path.summary,
               contributors |-> contributors,
               meta |-> ContributorsMeta(offset, limit, path.total_count)],
            reads |->
              {"gold_candidate", "gold_contributor"}
              \cup (IF use_materialized_view(r.date_from, r.date_to) THEN {"mv_contributor_candidate_stats"}
                    ELSE {"gold_contribution"})
              \cup (IF r.include_contributions /\ Len(contributors) > 0
                    THEN {"gold_contribution"} ELSE {})]
           : contributors \in
               UNION {BuildContributors(OffsetLimit(ordered, offset, limit),
                                        r.include_contributions,
                                        [row \in path.rows |-> nested(row)])
                      : ordered \in SortedSeqs(path.rows,
                             [p \in path.rows \X path.rows |-> Leq(p[1], p[2])])}}]

get_contributors_by_committee(d, r, offset, limit) ==
  LET committee == get_committee_by_id(d, r.committee_id, FALSE)
      candidate_name ==
        IF committee # None /\ committee[1].candidate_id # NoId
           /\ get_candidate_by_id(d, committee[1].candidate_id) # None
        THEN get_candidate_by_id(d, committee[1].candidate_id).name
        ELSE NullStr
      path == IF use_materialized_view(r.date_from, r.date_to)
              THEN MvPath(d, {m \in d.mv_contributor_committee_stats :
                                m.committee_id = r.committee_id}, r)
              ELSE LivePath(d, {k \in d.contribution :
                                  /\ k.recipient_committee_id = r.committee_id
                                  /\ InDates(k, r)}, r)
      Leq(a, b) == AggLeq(a, b, r.sort_by, r.order)
      nested(row) == {k \in d.contribution :
                        /\ k.contributor_id = row.contributor_id
                        /\ k.recipient_committee_id = r.committee_id
                        /\ InDates(k, r)}
  IN IF committee = None THEN None
     ELSE [results |-> {[body |->
              [committee |-> [id |-> committee[1].id, name |-> committee[1].name,
                              committee_type |-> committee[1].committee_type,
                              state |-> committee[1].state,
                              candidate_id |-> committee[1].candidate_id,
                              candidate_name |-> candidate_name],
               summary |-> path.summary,
               contributors |-> contributors,
               meta |-> ContributorsMeta(offset, limit, path.total_count)],
            reads |->
              {"gold_committee", "gold_contributor"}
              \cup (IF committee[1].candidate_id # NoId THEN {"gold_candidate"} ELSE {})
              \cup (IF use_materialized_view(r.date_from, r.date_to) THEN {"mv_contributor_committee_stats"}
                    ELSE {"gold_contribution"})
              \cup (IF r.include_contributions /\ Len(contributors) > 0
                    THEN {"gold_contribution"} ELSE {})]
           : contributors \in
               UNION {BuildContributors(OffsetLimit(ordered, offset, limit),
                                        r.include_contributions,
                                        [row \in path.rows |-> nested(row)])
                      : ordered \in SortedSeqs(path.rows,
                             [p \in path.rows \X path.rows |-> Leq(p[1], p[2])])}}]

AggSortParams == {"total_amount", "contribution_count", "name", "first_date", "last_date"}

\* the query strings drawn for the two endpoints, without the path parameter
ByRecipientQueries ==
  {[include_contributions |-> ic, sort_by |-> "total_amount", order |-> "desc",
    min_amount |-> NoAmount, max_amount |-> NoAmount, state |-> NullStr,
    entity_type |-> NullStr, date_from |-> df, date_to |-> dt, search |-> NoSearch,
    page |-> 1, page_size |-> MaxPageSize]
   : ic \in BOOLEAN, df \in {NoDate, 1, 2}, dt \in {NoDate, 2, MaxDate}}
  \cup
  {[include_contributions |-> FALSE, sort_by |-> sb, order |-> ord,
    min_amount |-> NoAmount, max_amount |-> NoAmount, state |-> NullStr,
    entity_type |-> NullStr, date_from |-> df, date_to |-> NoDate,
    search |-> NoSearch, page |-> pg, page_size |-> ps]
   : sb \in AggSortParams \cup {"amount"}, ord \in OrderParams \cup {"up"},
     df \in {NoDate, 1}, pg \in Pages, ps \in PageSizes}
  \cup
  {[include_contributions |-> FALSE, sort_by |-> "name", order |-> "asc",
    min_amount |-> mn, max_amount |-> mx, state |-> st, entity_type |-> et,
    date_from |-> df, date_to |-> NoDate, search |-> q, page |-> 1,
    page_size |-> MaxPageSize]
   : mn \in {NoAmount, 0, 20}, mx \in {NoAmount, 20}, st \in {NullStr, "md"},
     et \in {NullStr, "ind"}, df \in {NoDate, 1}, q \in {NoSearch, <<"a">>}}

\* state.upper() if state else None
UpperOpt(v) == IF Given(v) THEN UpperCode(v) ELSE NullStr

router_get_contributors_by_candidate(candidate_id, q) ==
  LET r == [op |-> "get_contributors_by_candidate", candidate_id |-> candidate_id] @@ q
      args == [r EXCEPT !.state = UpperOpt(r.state),
                        !.entity_type = UpperOpt(r.entity_type)]
      result == get_contributors_by_candidate(
                  db, args, (r.page - 1) * r.page_size, r.page_size)
  IN IF r.sort_by \notin AggSortParams \/ r.order \notin {"asc", "desc"}
     THEN Serve(r, 400, None, {})
     ELSE IF result = None
     THEN Serve(r, 404, None, {"gold_candidate"})
     ELSE \E res \in result.results : Serve(r, 200, res.body, res.reads)

router_get_contributors_by_committee(committee_id, q) ==
  LET r == [op |-> "get_contributors_by_committee", committee_id |-> committee_id] @@ q
      args == [r EXCEPT !.state = UpperOpt(r.state),
                        !.entity_type = UpperOpt(r.entity_type)]
      result == get_contributors_by_committee(
                  db, args, (r.page - 1) * r.page_size, r.page_size)
  IN IF r.sort_by \notin AggSortParams \/ r.order \notin {"asc", "desc"}
     THEN Serve(r, 400, None, {})
     ELSE IF result = None
     THEN Serve(r, 404, None, {"gold_committee"})
     ELSE \E res \in result.results : Serve(r, 200, res.body, res.reads)

\* ----------------------------------------------------------- RaceService
\* ORDER BY is_active DESC, name
RaceOrderLeq(a, b) ==
  IF a.is_active # b.is_active THEN a.is_active ELSE NameLeq(a, b)

\* stats_map of the race queries: one entry per candidate with contributions
RaceStatsMap(d, candidate_ids) ==
  LET matched == {k \in d.contribution : k.recipient_candidate_id \in candidate_ids}
      of(g) == {k \in matched : k.recipient_candidate_id = g}
  IN [id \in {k.recipient_candidate_id : k \in matched} |->
        [candidate_id |-> id,
         total_contributions |-> SqlCount(of(id)),
         total_amount |-> Coalesce(SqlSumAmount(of(id)), 0),
         unique_contributors |-> SqlCountDistinctContributor(of(id)),
         avg_contribution |-> Coalesce(SqlAvgAmount(of(id)), Zero)]]

\* the summary query: the candidates of the race LEFT JOIN their contributions
RaceSummaryQuery(d, cands) ==
  LET joined == {k \in d.contribution :
                   \E c \in cands : k.recipient_candidate_id = c.id}
  IN [total_candidates |-> Cardinality({c.id : c \in cands}),
      active_candidates |-> Cardinality({c.id : c \in {x \in cands : x.is_active}}),
      total_amount_raised |-> Coalesce(SqlSumAmount(joined), 0),
      total_contributions |-> SqlCount(joined),
      unique_contributors |-> SqlCountDistinctContributor(joined)]

\* the candidate list of a race response
RaceCandidates(ordered, stats_map, include_stats) ==
  [i \in 1..Len(ordered) |->
     [id |-> ordered[i].id, name |-> ordered[i].name, party |-> ordered[i].party,
      is_active |-> ordered[i].is_active,
      stats |-> IF ~include_stats THEN None
                ELSE IF ordered[i].id \in DOMAIN stats_map THEN stats_map[ordered[i].id]
                ELSE [candidate_id |-> ordered[i].id, total_contributions |-> 0,
                      total_amount |-> 0, unique_contributors |-> 0,
                      avg_contribution |-> Zero]]]

\* None, or [results |-> the responses the call may return]
get_senate_race(d, state, include_stats) ==
  LET cands == {c \in d.candidate : c.state = state /\ c.office = "S"}
      stats_map == IF include_stats THEN RaceStatsMap(d, {c.id : c \in cands})
                   ELSE << >>
  IN IF cands = {} THEN None
     ELSE [results |->
             {[state |-> state, office |-> "S",
               summary |-> RaceSummaryQuery(d, cands),
               candidates |-> RaceCandidates(ordered, stats_map, include_stats)]
              : ordered \in SortedSeqs(cands,
                     [p \in cands \X cands |-> RaceOrderLeq(p[1], p[2])])}]

get_house_race(d, state, district, include_stats) ==
  LET cands == {c \in d.candidate :
                  c.state = state /\ c.office = "H" /\ c.district = district}
      stats_map == IF include_stats THEN RaceStatsMap(d, {c.id : c \in cands})
                   ELSE << >>
  IN IF cands = {} THEN None
     ELSE [results |->
             {[state |-> state, district |-> district, office |-> "H",
               summary |-> RaceSummaryQuery(d, cands),
               candidates |-> RaceCandidates(ordered, stats_map, include_stats)]
              : ordered \in SortedSeqs(cands,
                     [p \in cands \X cands |-> RaceOrderLeq(p[1], p[2])])}]

\* never None: the responses the call may return
get_presidential_race(d, include_stats) ==
  LET cands == {c \in d.candidate : c.office = "P"}
      stats_map == IF include_stats /\ cands # {}
                   THEN RaceStatsMap(d, {c.id : c \in cands})
                   ELSE << >>
      summary == IF cands # {} THEN RaceSummaryQuery(d, cands)
                 ELSE [total_candidates |-> 0, active_candidates |-> 0,
                       total_amount_raised |-> 0, total_contributions |-> 0,
                       unique_contributors |-> 0]
  IN {[office |-> "P", summary |-> summary,
       candidates |-> RaceCandidates(ordered, stats_map, include_stats)]
      : ordered \in SortedSeqs(cands,
                     [p \in cands \X cands |-> RaceOrderLeq(p[1], p[2])])}

\* ----------------------------------------------------------- routers/race
\* variant: no presidential candidate is reported as not found
router_get_presidential_race_strict(include_stats) ==
  \E res \in get_presidential_race(db, include_stats) :
    IF res.candidates = << >>
    THEN Serve([op |-> "get_presidential_race", include_stats |-> include_stats],
               404, None, {"gold_candidate"})
    ELSE Serve([op |-> "get_presidential_race", include_stats |-> include_stats],
               200, res, {"gold_candidate", "gold_contribution"})

router_get_presidential_race(include_stats) ==
  \E res \in get_presidential_race(db, include_stats) :
    Serve([op |-> "get_presidential_race", include_stats |-> include_stats],
          200, res,
          IF res.candidates = << >> THEN {"gold_candidate"}
          ELSE {"gold_candidate", "gold_contribution"})

router_get_senate_race(state, include_stats) ==
  LET r == [op |-> "get_senate_race", state |-> state, include_stats |-> include_stats]
      result == get_senate_race(db, UpperCode(state), include_stats)
  IN IF result = None THEN Serve(r, 404, None, {"gold_candidate"})
     ELSE \E res \in result.results :
            Serve(r, 200, res, {"gold_candidate", "gold_contribution"})

router_get_house_race(state, district, include_stats) ==
  LET r == [op |-> "get_house_race", state |-> state, district |-> district,
            include_stats |-> include_stats]
      result == get_house_race(db, UpperCode(state), district, include_stats)
  IN IF result = None THEN Serve(r, 404, None, {"gold_candidate"})
     ELSE \E res \in result.results :
            Serve(r, 200, res, {"gold_candidate", "gold_contribution"})

\* ---------------------------------------------------------- StateService
\* COALESCE(s.total_amount, 0) of gold_candidate LEFT JOIN mv_candidate_stats
MvTotalAmount(d, c) ==
  Coalesce({s.total_amount : s \in {x \in d.mv_candidate_stats : x.candidate_id = c.id}}, 0)

\* the race summary of one office; tops is the list of top fundraisers
StateRace(d, state, office, tops) ==
  LET cands == {c \in d.candidate : c.state = state /\ c.office = office}
      joined == {s \in d.mv_candidate_stats : \E c \in cands : s.candidate_id = c.id}
      districts == {c.district : c \in {x \in cands : x.district # NullStr}}
  IN [office |-> office,
      districts |-> IF office = "H" THEN districts ELSE {},
      candidate_count |-> Cardinality(cands),
      active_candidate_count |-> Cardinality({c \in cands : c.is_active}),
      total_raised |-> Coalesce(IF joined = {} THEN {}
                                ELSE {Sum([s \in joined |-> s.total_amount], joined)}, 0),
      top_fundraisers |-> tops]

\* ORDER BY COALESCE(s.total_amount, 0) DESC LIMIT :top_n
TopFundraisers(d, state, office, top_n) ==
  LET cands == {c \in d.candidate : c.state = state /\ c.office = office}
      Leq(a, b) == MvTotalAmount(d, a) >= MvTotalAmount(d, b)
  IN {OffsetLimit(ordered, 0, top_n) : ordered \in SortedSeqs(cands,
                     [p \in cands \X cands |-> Leq(p[1], p[2])])}

\* None, or [results |-> the summaries the call may return]
get_state_summary(d, state, top_n) ==
  LET cands == {c \in d.candidate : c.state = state}
      joined == {s \in d.mv_candidate_stats : \E c \in cands : s.candidate_id = c.id}
      sumOf(f) == Coalesce(IF joined = {} THEN {} ELSE {Sum(f, joined)}, 0)
      offices == {c.office : c \in cands}
      OfficeLeq(a, b) == CharRank(a) <= CharRank(b)
      ordered == CHOOSE o \in SortedSeqs(offices,
                     [p \in offices \X offices |-> OfficeLeq(p[1], p[2])]) : TRUE
  IN IF Cardinality({c.id : c \in cands}) = 0 THEN None
     ELSE [results |->
             {[state |-> state,
               total_candidates |-> Cardinality({c.id : c \in cands}),
               active_candidates |-> Cardinality({c \in cands : c.is_active}),
               total_raised |-> sumOf([s \in joined |-> s.total_amount]),
               total_contributions |-> sumOf([s \in joined |-> s.total_contributions]),
               unique_contributors |-> sumOf([s \in joined |-> s.unique_contributors]),
               races |-> [i \in 1..Len(ordered) |->
                            StateRace(d, state, ordered[i], tops[ordered[i]])]]
              : tops \in {t \in [offices ->
                                   UNION {TopFundraisers(d, state, o, top_n)
                                          : o \in offices}] :
                            \A o \in offices :
                              t[o] \in TopFundraisers(d, state, o, top_n)}}]

\* ---------------------------------------------------------- routers/state
router_get_state_summary(state, top_n) ==
  LET r == [op |-> "get_state_summary", state |-> state, top_n |-> top_n]
      summary == get_state_summary(db, UpperCode(state), top_n)
  IN IF summary = None THEN Serve(r, 404, None, {"gold_candidate"})
     ELSE \E res \in summary.results :
            Serve(r, 200, res, {"gold_candidate", "mv_candidate_stats"})

RequestStates == {"MD", "md", "VA"}
RequestDistricts == {"01", "02"}

\* ------------------------------------------------------------- name search
\* CandidateService.search_candidates: the results the queries can return
search_candidates(d, search_query, state, offices, parties, is_active, has_fundraising, offset, limit) ==
  LET search_pattern == SearchPattern(search_query)
      candidates_with_contributions ==
        {id \in {k.recipient_candidate_id : k \in d.contribution} :
           /\ id # NoId
           /\ LET ks == {k \in d.contribution : k.recipient_candidate_id = id}
              IN Sum([k \in ks |-> k.amount], ks) > 0}
      rows == {c \in d.candidate :
                 /\ ILike(c.name, search_pattern)
                 /\ Given(state) => c.state = state
                 /\ offices # << >> => c.office \in Range(offices)
                 /\ parties # << >> => c.party \in Range(parties)
                 /\ is_active # {} => c.is_active \in is_active
                 /\ has_fundraising => c.id \in candidates_with_contributions}
  IN {[rows |-> OffsetLimit(s, offset, limit), total_count |-> Cardinality(rows)]
      : s \in SortedSeqs(rows, [p \in rows \X rows |-> NameLeq(p[1], p[2])])}

\* CommitteeService.search_committees
search_committees(d, search_query, offset, limit) ==
  LET search_pattern == SearchPattern(search_query)
      rows == {m \in d.committee : ILike(m.name, search_pattern)}
  IN {[rows |-> OffsetLimit(s, offset, limit), total_count |-> Cardinality(rows)]
      : s \in SortedSeqs(rows, [p \in rows \X rows |-> NameLeq(p[1], p[2])])}

\* ContributorService.search_contributors
search_contributors(d, search_query, offset, limit) ==
  LET search_pattern == SearchPattern(search_query)
      rows == {p \in d.contributor : ILike(p.name, search_pattern)}
  IN {[rows |-> OffsetLimit(s, offset, limit), total_count |-> Cardinality(rows)]
      : s \in SortedSeqs(rows, [p \in rows \X rows |-> NameLeq(p[1], p[2])])}

\* CandidateList.model_validate
CandidateList(c) ==
  [id |-> c.id, name |-> c.name, office |-> c.office, state |-> c.state,
   district |-> c.district, party |-> c.party, is_active |-> c.is_active]

\* ContributorList.model_validate
ContributorList(p) ==
  [id |-> p.id, name |-> p.name, city |-> p.city, state |-> p.state, zip |-> p.zip,
   entity_type |-> p.entity_type, employer |-> p.employer, occupation |-> p.occupation]

\* PaginatedResponse(items=[...], meta=create_pagination_meta(...))
PaginatedResponse(items, page, page_size, total_items) ==
  [items |-> items, meta |-> create_pagination_meta(page, page_size, total_items)]

\* the search strings drawn for q: letters of both cases, the characters "_"
\* and "%", and a string no name contains
SearchQueries ==
  {<<"K", "E">>, <<"a", "c">>, <<"A">>, <<"Z">>, <<"_">>, <<"%">>, <<"A", "_", "A">>}

\* the query strings drawn for GET /candidates/search
SearchCandidatesRequests ==
  {[op |-> "search_candidates", q |-> q, state |-> st, office |-> off,
    party |-> << >>, is_active |-> {}, has_fundraising |-> hf,
    page |-> pg, page_size |-> ps]
   : q \in SearchQueries, st \in {NullStr, "md"}, off \in {<< >>, <<"h">>},
     hf \in BOOLEAN, pg \in Pages, ps \in PageSizes}

\* GET /candidates/search
router_search_candidates(r) ==
  \E res \in search_candidates(db, r.q, UpperOpt(r.state), ParseCodes(r.office),
                               ParseCodes(r.party), r.is_active, r.has_fundraising,
                               PaginationOffset(r.page, r.page_size), r.page_size) :
    Serve(r, 200,
          PaginatedResponse([i \in 1..Len(res.rows) |-> CandidateList(res.rows[i])],
                            r.page, r.page_size, res.total_count),
          IF r.has_fundraising THEN {"gold_candidate", "gold_contribution"}
          ELSE {"gold_candidate"})

\* GET /committees/search of routers/contribution
contribution_search_committees(q, page, page_size) ==
  \E res \in search_committees(db, q, PaginationOffset(page, page_size), page_size) :
    Serve([op |-> "search_committees", q |-> q, page |-> page, page_size |-> page_size],
          200,
          PaginatedResponse([i \in 1..Len(res.rows) |-> CommitteeList(res.rows[i])],
                            page, page_size, res.total_count),
          {"gold_committee"})

\* GET /search of routers/search
unified_search(q, categories, page_size) ==
  LET category_list == IF categories # {} THEN categories
                       ELSE {"candidates", "contributors", "committees"}
  IN \E candidates \in search_candidates(db, q, NullStr, << >>, << >>, {}, FALSE, 0, page_size),
        contributors \in search_contributors(db, q, 0, page_size),
        committees \in search_committees(db, q, 0, page_size) :
       Serve([op |-> "unified_search", q |-> q, categories |-> categories,
              page_size |-> page_size],
             200,
             [candidates |-> IF "candidates" \in category_list
                             THEN PaginatedResponse(
                                    [i \in 1..Len(candidates.rows) |->
                                       CandidateList(candidates.rows[i])],
                                    1, page_size, candidates.total_count)
                             ELSE None,
              contributors |-> IF "contributors" \in category_list
                               THEN PaginatedResponse(
                                      [i \in 1..Len(contributors.rows) |->
                                         ContributorList(contributors.rows[i])],
                                      1, page_size, contributors.total_count)
                               ELSE None,
              committees |-> IF "committees" \in category_list
                             THEN PaginatedResponse(
                                    [i \in 1..Len(committees.rows) |->
                                       CommitteeList(committees.rows[i])],
                                    1, page_size, committees.total_count)
                             ELSE None],
             {t \in {"gold_candidate", "gold_contributor", "gold_committee"} :
                \/ t = "gold_candidate" /\ "candidates" \in category_list
                \/ t = "gold_contributor" /\ "contributors" \in category_list
                \/ t = "gold_committee" /\ "committees" \in category_list})

Next ==
  \/ resp = Idle /\ \E id \in Ids : router_get_candidate(id)
  \/ resp = Idle /\ \E id \in Ids : router_get_candidate_stats(id)
  \/ resp = Idle /\ \E ids \in IdLists : router_get_bulk_candidate_stats(ids)
  \/ resp = Idle /\ \E ids \in IdLists, inc \in BOOLEAN : router_get_batch_candidate_details(ids, inc)
  \/ resp = Idle /\ \E r \in SearchCandidatesRequests : router_search_candidates(r)
  \/ resp = Idle /\ \E r \in ByStateRequests : router_list_candidates_by_state(r)
  \/ resp = Idle /\ \E r \in ByStateHouseRequests : router_list_house_candidates_by_state(r)
  \/ resp = Idle /\ \E r \in ByStateSenateRequests : router_list_senate_candidates_by_state(r)
  \/ resp = Idle /\ \E id \in Ids, inc \in BOOLEAN : router_get_committee(id, inc)
  \/ resp = Idle /\ \E id \in Ids : router_get_committee_stats(id)
  \/ resp = Idle /\ \E r \in ListCommitteesRequests : router_list_committees(r)
  \/ resp = Idle /\ \E id \in Ids : router_get_contributor(id)
  \/ resp = Idle /\ \E id \in Ids : router_get_contributor_stats(id)
  \/ resp = Idle /\ \E r \in ContributionsRequests : router_get_contributor_contributions(r)
  \/ resp = Idle /\ \E id \in Ids, sb \in RecipientSortParams, sd \in OrderParams :
                      router_get_contributor_recipients(id, sb, sd)
  \/ resp = Idle /\ \E id \in Ids, q \in ByRecipientQueries :
                      router_get_contributors_by_candidate(id, q)
  \/ resp = Idle /\ \E id \in Ids, q \in ByRecipientQueries :
                      router_get_contributors_by_committee(id, q)
  \/ resp = Idle /\ \E inc \in BOOLEAN : router_get_presidential_race(inc)
  \/ resp = Idle /\ \E st \in RequestStates, inc \in BOOLEAN : router_get_senate_race(st, inc)
  \/ resp = Idle /\ \E st \in RequestStates, di \in RequestDistricts, inc \in BOOLEAN :
                      router_get_house_race(st, di, inc)
  \/ resp = Idle /\ \E st \in RequestStates, n \in PageSizes : router_get_state_summary(st, n)
  \/ CloseSession

Spec == Init /\ [][Next]_vars

\* --------------------------------------------- the name searches, alone
\* the search operations applied to every database and every query drawn
NextSearch ==
  \/ resp = Idle /\ \E r \in SearchCandidatesRequests : router_search_candidates(r)
  \/ resp = Idle /\ \E q \in SearchQueries, pg \in Pages, ps \in PageSizes :
                      contribution_search_committees(q, pg, ps)
  \/ resp = Idle /\ \E q \in SearchQueries, cats \in SUBSET {"candidates", "contributors", "committees"}, ps \in PageSizes :
                      unified_search(q, cats, ps)
  \/ CloseSession

SpecSearch == Init /\ [][NextSearch]_vars

\* ---------------------------------------------------- ContributionService
\* ContributionFilters.to_filter_dict and the where(column == value) loop
ContributionFilterDict(k, filters) ==
  /\ filters.contributor_id = NoId \/ k.contributor_id = filters.contributor_id
  /\ filters.recipient_committee_id = NoId
       \/ k.recipient_committee_id = filters.recipient_committee_id
  /\ filters.recipient_candidate_id = NoId
       \/ k.recipient_candidate_id = filters.recipient_candidate_id
  /\ filters.contribution_type = NullStr \/ k.contribution_type = filters.contribution_type

\* `if filters.min_amount:` and `if filters.max_amount:`: the truth value of
\* an optional Decimal, false for None and for zero
DecimalTruthy(v) == v # NoAmount /\ v # 0

\* the results list_contributions can return
list_contributions(d, filters, offset, limit) ==
  LET rows == {k \in d.contribution :
                 /\ ContributionFilterDict(k, filters)
                 /\ filters.start_date # NoDate => k.contribution_date >= filters.start_date
                 /\ filters.end_date # NoDate => k.contribution_date <= filters.end_date
                 /\ DecimalTruthy(filters.min_amount) => k.amount >= filters.min_amount
                 /\ DecimalTruthy(filters.max_amount) => k.amount <= filters.max_amount}
      \* ORDER BY contribution_date DESC, id DESC
      ContributionOrderLeq(a, b) ==
        IF a.contribution_date # b.contribution_date
        THEN a.contribution_date > b.contribution_date
        ELSE a.id >= b.id
  IN {[contributions |-> OffsetLimit(s, offset, limit), total_count |-> Cardinality(rows)]
      : s \in SortedSeqs(rows, [p \in rows \X rows |-> ContributionOrderLeq(p[1], p[2])])}

\* the filters drawn: every field absent or given, the amounts also zero
ContributionFiltersInputs ==
  {[op |-> "list_contributions", contributor_id |-> cid, recipient_committee_id |-> NoId,
    recipient_candidate_id |-> rid, contribution_type |-> ty,
    start_date |-> sd, end_date |-> ed, min_amount |-> mn, max_amount |-> mx,
    offset |-> off, limit |-> MaxPageSize]
   : cid \in {NoId, 1}, rid \in {NoId, 1}, ty \in {NullStr, "15"},
     sd \in {NoDate, 2}, ed \in {NoDate, 2}, mn \in {NoAmount, 0, 20}, mx \in {NoAmount, 0, 20},
     off \in {0, 1}}

\* one call of ContributionService.list_contributions
apply_list_contributions(r) ==
  \E res \in list_contributions(db, r, r.offset, r.limit) :
    Serve(r, 200, res, {"gold_contribution"})

NextContributions ==
  \/ resp = Idle /\ \E r \in ContributionFiltersInputs : apply_list_contributions(r)
  \/ CloseSession

SpecContributions == Init /\ [][NextContributions]_vars

\* ------------------------------------------- pagination metadata, alone
\* create_pagination_meta applied to every input within the bounds
MetaInputs ==
  {[op |-> "create_pagination_meta", page |-> pg, page_size |-> ps, total_items |-> t]
   : pg \in 1..MaxMetaPage, ps \in 1..MaxMetaPageSize, t \in 0..MaxMetaItems}

InitMeta ==
  /\ db = Database({}, {})
  /\ req \in MetaInputs
  /\ resp = Idle
  /\ reads = {}

ApplyMeta ==
  /\ resp = Idle
  /\ resp' = [status |-> 200,
              body |-> create_pagination_meta(req.page, req.page_size, req.total_items)]
  /\ UNCHANGED <<db, req, reads>>

NextMeta == ApplyMeta

SpecMeta == InitMeta /\ [][NextMeta]_vars

\* ------------------------------------------------------- field selection
\* The values of an item: a scalar, None, a dict or a nested BaseModel.  A
\* dict and a model hold entries, a function from nested keys to scalars.
\* Keys and field names are strings, written as sequences of characters.
ScalarValue(n) == [kind |-> "scalar", scalar |-> n, entries |-> << >>]
DictValue(e) == [kind |-> "dict", scalar |-> 0, entries |-> e]
ModelValue(e) == [kind |-> "model", scalar |-> 0, entries |-> e]

\* BaseModel.model_dump(): nested models become dicts
model_dump(data) ==
  [k \in DOMAIN data |-> IF data[k].kind = "model" THEN DictValue(data[k].entries)
                         ELSE data[k]]

\* "." in field
HasDot(field) == \E i \in 1..Len(field) : field[i] = "."

\* field.split(".", 1): the parts before and after the first dot
FirstDot(field) ==
  CHOOSE i \in 1..Len(field) : field[i] = "." /\ \A j \in 1..(i - 1) : field[j] # "."

ParentField(field) == SubSeq(field, 1, FirstDot(field) - 1)
NestedField(field) == SubSeq(field, FirstDot(field) + 1, Len(field))

\* one iteration of the loop of _filter_dict
FilterField(result, data, field) ==
  IF HasDot(field)
  THEN LET parent_field == ParentField(field)
           nested_field == NestedField(field)
       IN IF parent_field \notin DOMAIN data THEN result
          ELSE LET parent_value == data[parent_field]
                   ensured == IF parent_field \in DOMAIN result THEN result
                              ELSE IF parent_value.kind \in {"dict", "model"}
                              THEN (parent_field :> DictValue(<< >>)) @@ result
                              ELSE (parent_field :> parent_value) @@ result
                   current == IF ensured[parent_field].kind = "dict"
                              THEN ensured[parent_field].entries ELSE << >>
               IN IF parent_field \notin DOMAIN result
                     /\ parent_value.kind \notin {"dict", "model"}
                  THEN ensured
                  ELSE IF parent_value.kind \in {"dict", "model"}
                          /\ nested_field \in DOMAIN parent_value.entries
                  THEN (parent_field :>
                          DictValue((nested_field :> parent_value.entries[nested_field])
                                    @@ current))
                       @@ ensured
                  ELSE ensured
  ELSE IF field \in DOMAIN data THEN (field :> data[field]) @@ result
       ELSE result

\* _filter_dict(data, fields), the set fields being iterated in this order:
\* the result after the last field, from the result after those before it
RECURSIVE filter_dict(_, _)
filter_dict(data, order) ==
  IF order = << >> THEN << >>
  ELSE FilterField(filter_dict(data, SubSeq(order, 1, Len(order) - 1)), data,
                   order[Len(order)])

\* the orders in which a set can be iterated
IterationOrders(S) ==
  {s \in [1..Cardinality(S) -> S] : \A i, j \in 1..Cardinality(S) : i # j => s[i] # s[j]}

\* apply_field_selection: data is one item or a list of items, an item a
\* BaseModel or a dict; fields is None or a set iterated in the given order
apply_field_selection(data, fields, order) ==
  LET dumped(item) == IF item.is_model THEN model_dump(item.data) ELSE item.data
  IN IF ~fields.given \/ Cardinality(fields.names) = 0
     THEN [is_list |-> data.is_list,
           items |-> [i \in 1..Len(data.items) |-> dumped(data.items[i])]]
     ELSE [is_list |-> data.is_list,
           items |-> [i \in 1..Len(data.items) |-> filter_dict(dumped(data.items[i]), order)]]

\* bounds of the inputs of the field selection
MaxFields == 2
MaxListLen == 2

\* the field names drawn: keys the items have and lack, dotted names of
\* nested keys present and absent, and names with no parent or no nested part
FieldNames ==
  {<<"i">>, <<"s">>, <<"x">>, <<"s", ".", "t">>, <<"s", ".", "c">>, <<"s", ".", "x">>,
   <<"i", ".", "t">>, <<"x", ".", "t">>, <<"s", ".", "t", ".", "c">>, <<"s", ".">>,
   <<".", "t">>}

\* the items drawn: key "s" absent, None, a scalar, a dict or a nested model
FieldItems ==
  LET StatsEntries == (<<"t">> :> 35) @@ (<<"c">> :> 2)
  IN
  {[is_model |-> FALSE, data |-> (<<"i">> :> ScalarValue(1))],
   [is_model |-> TRUE, data |-> (<<"i">> :> ScalarValue(1)) @@ (<<"s">> :> [kind |-> "none", scalar |-> 0, entries |-> << >>])],
   [is_model |-> FALSE, data |-> (<<"i">> :> ScalarValue(2)) @@ (<<"s">> :> ScalarValue(7))],
   [is_model |-> FALSE,
    data |-> (<<"i">> :> ScalarValue(1)) @@ (<<"s">> :> DictValue(StatsEntries))],
   [is_model |-> TRUE,
    data |-> (<<"i">> :> ScalarValue(2)) @@ (<<"s">> :> ModelValue(StatsEntries))],
   [is_model |-> FALSE,
    data |-> (<<"i">> :> ScalarValue(3)) @@ (<<"s">> :> ModelValue(StatsEntries))]}

FieldSelectionInputs ==
  {[op |-> "apply_field_selection", data |-> d, fields |-> f]
   : d \in {[is_list |-> FALSE, items |-> <<item>>] : item \in FieldItems}
           \cup {[is_list |-> TRUE, items |-> s] : s \in {<< >>} \cup SeqsUpTo(FieldItems, MaxListLen)},
     f \in {[given |-> FALSE, names |-> {}]}
           \cup {[given |-> TRUE, names |-> n]
                 : n \in {m \in SUBSET FieldNames : Cardinality(m) <= MaxFields}}}

InitFields ==
  /\ db = Database({}, {})
  /\ req \in FieldSelectionInputs
  /\ resp = Idle
  /\ reads = {}

ApplyFieldSelection ==
  /\ resp = Idle
  /\ \E order \in IterationOrders(req.fields.names) :
       resp' = [status |-> 200, body |-> apply_field_selection(req.data, req.fields, order)]
  /\ UNCHANGED <<db, req, reads>>

NextFields == ApplyFieldSelection

SpecFields == InitFields /\ [][NextFields]_vars

\* ================================================================ claims
Served(op) == resp.status = 200 /\ req.op = op

C2_Live ==
  {k \in db.contribution :
     /\ IF req.op = "get_contributors_by_candidate"
        THEN k.recipient_candidate_id = req.candidate_id /\ NotConduit(k)
        ELSE k.recipient_committee_id = req.committee_id
     /\ req.date_from # NoDate => k.contribution_date >= req.date_from
     /\ req.date_to # NoDate => k.contribution_date <= req.date_to}

C2_LiveOf(id) == {k \in C2_Live : k.contributor_id = id}

C2_LiveTotal(id) == Sum([k \in C2_LiveOf(id) |-> k.amount], C2_LiveOf(id))

\* the contributors the live aggregation keeps under the filters of the request
C2_LiveContributors ==
  {p \in db.contributor :
     /\ C2_LiveOf(p.id) # {}
     /\ Given(req.state) => p.state = UpperCode(req.state)
     /\ Given(req.entity_type) => p.entity_type = UpperCode(req.entity_type)
     /\ req.search # NoSearch => ILike(p.name, SearchPattern(req.search))
     /\ req.min_amount # NoAmount => C2_LiveTotal(p.id) >= req.min_amount
     /\ req.max_amount # NoAmount => C2_LiveTotal(p.id) <= req.max_amount}

C2_View ==
  IF req.op = "get_contributors_by_candidate" THEN "mv_contributor_candidate_stats"
  ELSE "mv_contributor_committee_stats"

C2_Dated == req.date_from # NoDate \/ req.date_to # NoDate

\* C2: get_contributors_by_candidate and get_contributors_by_committee read
\* the materialized view exactly when date_from and date_to are both
\* absent; when one of them is given, the view is not read and the rows,
\* the total count and the summary are those of the live aggregation over
\* the contribution table.
C2_PathSelection ==
  (Served("get_contributors_by_candidate") \/ Served("get_contributors_by_committee")) =>
    /\ C2_View \in reads <=> ~C2_Dated
    /\ C2_Dated =>
         /\ "gold_contribution" \in reads
         /\ reads \cap {"mv_contributor_candidate_stats", "mv_contributor_committee_stats",
                        "mv_contributor_stats", "mv_candidate_stats"} = {}
         /\ resp.body.meta.total_items = Cardinality(C2_LiveContributors)
         /\ \A i \in 1..Len(resp.body.contributors) :
              LET e == resp.body.contributors[i]
              IN /\ \E p \in C2_LiveContributors : p.id = e.contributor_id
                 /\ e.contribution_count = Cardinality(C2_LiveOf(e.contributor_id))
                 /\ e.total_amount = C2_LiveTotal(e.contributor_id)
                 /\ e.first_contribution_date =
                      Min({k.contribution_date : k \in C2_LiveOf(e.contributor_id)})
                 /\ e.last_contribution_date =
                      Max({k.contribution_date : k \in C2_LiveOf(e.contributor_id)})
         /\ resp.body.summary.total_contributors =
              Cardinality({k.contributor_id : k \in C2_Live})
         /\ resp.body.summary.total_contributions = Cardinality(C2_Live)
         /\ resp.body.summary.total_amount_raised =
              Sum([k \in C2_Live |-> k.amount], C2_Live)

\* only date_to is given and the live aggregation has rows to return
C2_Witness ==
  /\ Served("get_contributors_by_candidate")
  /\ req.date_from = NoDate
  /\ req.date_to # NoDate
  /\ Len(resp.body.contributors) > 0
  /\ db.mv_contributor_candidate_stats # {}

C3_ContributorFields ==
  {"contributor_id", "contributor_name", "city", "state", "zip", "entity_type",
   "employer", "occupation", "total_amount", "contribution_count",
   "first_contribution_date", "last_contribution_date", "contributions"}

C3_SummaryFields ==
  {"total_contributors", "total_amount_raised", "total_contributions",
   "first_contribution", "last_contribution"}

C3_MetaKeys == {"page", "page_size", "total_items", "total_pages", "has_next", "has_prev"}

\* C3: the responses of get_contributors_by_candidate and
\* get_contributors_by_committee have the same shape on the
\* materialized-view path and on the live path: every contributor entry
\* has the same thirteen fields, the summary the same five fields and meta
\* the same six keys, whatever the date filters.
C3_SameShape ==
  (Served("get_contributors_by_candidate") \/ Served("get_contributors_by_committee")) =>
    /\ DOMAIN resp.body.summary = C3_SummaryFields
    /\ DOMAIN resp.body.meta = C3_MetaKeys
    /\ \A i \in 1..Len(resp.body.contributors) :
         DOMAIN resp.body.contributors[i] = C3_ContributorFields

\* a response of the live path with contributors and their contributions
C3_Witness ==
  /\ Served("get_contributors_by_committee")
  /\ req.date_from # NoDate
  /\ req.include_contributions
  /\ Len(resp.body.contributors) > 1

C4_Of(op) ==
  {k \in db.contribution :
     IF op = "get_candidate_stats" THEN k.recipient_candidate_id = req.candidate_id
     ELSE k.recipient_committee_id = req.committee_id}

C4_Figures(body) ==
  IF req.op = "get_candidate_stats"
  THEN <<body.total_contributions, body.total_amount, body.unique_contributors,
         body.avg_contribution>>
  ELSE <<body.total_contributions_received, body.total_amount_received,
         body.unique_contributors, body.avg_contribution>>

\* C4: for an existing candidate get_candidate_stats returns the number of
\* the contributions to the candidate, the sum of their amounts, the number
\* of distinct contributors among them and, as average, the sum divided by
\* the number; all four are 0 when there is no contribution.
\* get_committee_stats does the same over recipient_committee_id.
C4_Stats ==
  (Served("get_candidate_stats") \/ Served("get_committee_stats")) =>
    LET ks == C4_Of(req.op)
        fig == C4_Figures(resp.body)
        total == Sum([k \in ks |-> k.amount], ks)
    IN /\ fig[1] = Cardinality(ks)
       /\ fig[2] = total
       /\ fig[3] = Cardinality({k.contributor_id : k \in ks})
       /\ fig[4].den > 0
       /\ ks # {} => fig[4].num * Cardinality(ks) = total * fig[4].den
       /\ ks = {} => fig[1] = 0 /\ fig[2] = 0 /\ fig[3] = 0 /\ fig[4].num = 0

\* a candidate with two contributions of the same contributor and one of another
C4_Witness ==
  /\ Served("get_candidate_stats")
  /\ resp.body.total_contributions = 3
  /\ resp.body.unique_contributors = 2

C5_Ops ==
  {"get_candidate", "get_candidate_stats", "get_committee", "get_committee_stats",
   "get_contributor", "get_contributor_stats", "get_contributor_contributions",
   "get_contributor_recipients", "get_contributors_by_candidate",
   "get_contributors_by_committee"}

\* the row the served request addresses exists
C5_RowExists ==
  CASE req.op \in {"get_candidate", "get_candidate_stats",
                   "get_contributors_by_candidate"} ->
         \E c \in db.candidate : c.id = req.candidate_id
    [] req.op \in {"get_committee", "get_committee_stats",
                   "get_contributors_by_committee"} ->
         \E m \in db.committee : m.id = req.committee_id
    [] OTHER -> \E p \in db.contributor : p.id = req.contributor_id

\* the handler's own validation of the query string rejects the request
C5_Rejected ==
  /\ req.op \in {"get_contributors_by_candidate", "get_contributors_by_committee"}
  /\ req.sort_by \notin {"total_amount", "contribution_count", "name", "first_date",
                         "last_date"}
     \/ req.order \notin {"asc", "desc"}

\* C5 as stated: every endpoint that addresses one row by id responds 404
\* if and only if no row with that id exists.
C5_NotFoundIffMissing ==
  (req.op \in C5_Ops /\ resp # Idle) => (resp.status = 404 <=> ~C5_RowExists)

\* C5 amended: every endpoint that addresses one row by id responds 404 if
\* and only if no row with that id exists, also when the row has no
\* contributions, unless the handler rejects the query string first:
\* by-candidate and by-committee answer 400 to an unknown sort_by or order
\* before they look the row up.
C5_NotFoundIffMissingValid ==
  (req.op \in C5_Ops /\ resp # Idle) =>
    IF C5_Rejected THEN resp.status = 400
    ELSE /\ resp.status = 404 <=> ~C5_RowExists
         /\ resp.status \in {200, 404}

\* a contributor without contributions is found
C5_Witness ==
  /\ Served("get_contributor_stats")
  /\ resp.body.total_contributions = 0
  /\ \A k \in db.contribution : k.contributor_id # req.contributor_id

\* a candidate matches the race or the state the served request names
C6_Matches ==
  CASE req.op = "get_senate_race" ->
         \E c \in db.candidate : c.state = UpperCode(req.state) /\ c.office = "S"
    [] req.op = "get_house_race" ->
         \E c \in db.candidate : /\ c.state = UpperCode(req.state)
                                 /\ c.office = "H"
                                 /\ c.district = req.district
    [] req.op = "get_state_summary" ->
         \E c \in db.candidate : c.state = UpperCode(req.state)

\* C6: the senate race, the house race and the state summary respond 404
\* exactly when no candidate matches; the presidential race never responds
\* 404, and without a candidate for office P it returns an empty candidate
\* list and a summary whose five figures are 0.
C6_RaceNotFound ==
  /\ (req.op \in {"get_senate_race", "get_house_race", "get_state_summary"}
      /\ resp # Idle) =>
       /\ resp.status \in {200, 404}
       /\ resp.status = 404 <=> ~C6_Matches
  /\ (req.op = "get_presidential_race" /\ resp # Idle) =>
       /\ resp.status = 200
       /\ (~\E c \in db.candidate : c.office = "P") =>
            /\ resp.body.candidates = << >>
            /\ resp.body.summary =
                 [total_candidates |-> 0, active_candidates |-> 0,
                  total_amount_raised |-> 0, total_contributions |-> 0,
                  unique_contributors |-> 0]

\* the presidential race of a database with candidates, none of them for P
C6_Witness ==
  /\ Served("get_presidential_race")
  /\ resp.body.candidates = << >>
  /\ db.candidate # {}
  /\ db.contribution # {}

\* the ids of the request that exist, in the order of the request
C7_Expected ==
  SelectSeq(req.ids, LAMBDA id : \E c \in db.candidate : c.id = id)

\* C7: POST /candidates/details/batch returns exactly the candidates whose
\* id is in the request and exists, in the order of the ids of the request,
\* whatever include_stats is.
C7_BatchOrder ==
  Served("get_batch_candidate_details") =>
    /\ Len(resp.body.candidates) = Len(C7_Expected)
    /\ \A i \in 1..Len(C7_Expected) :
         /\ resp.body.candidates[i].id = C7_Expected[i]
         /\ \E c \in db.candidate :
              /\ c.id = C7_Expected[i]
              /\ resp.body.candidates[i].name = c.name

\* two existing candidates asked for against the order of their names
C7_Witness ==
  /\ Served("get_batch_candidate_details")
  /\ req.ids = <<1, 2>>
  /\ Len(resp.body.candidates) = 2
  /\ req.include_stats

\* a missing id is skipped
C7_WitnessSkip ==
  /\ Served("get_batch_candidate_details")
  /\ req.ids = <<4, 1>>
  /\ Len(resp.body.candidates) = 1

\* C8: the dictionary of get_bulk_candidate_stats has exactly the requested
\* ids as keys, and the entry of a requested id that is an existing
\* candidate is what get_candidate_stats returns for that id alone.
C8_BulkEqualsSingle ==
  Served("get_bulk_candidate_stats") =>
    /\ DOMAIN resp.body.stats = Range(req.candidate_ids)
    /\ \A id \in Range(req.candidate_ids) :
         (\E c \in db.candidate : c.id = id) =>
           resp.body.stats[id] = get_candidate_stats(db, id)

\* one requested candidate has contributions, the other has none
C8_Witness ==
  /\ Served("get_bulk_candidate_stats")
  /\ Range(req.candidate_ids) = {1, 2}
  /\ resp.body.stats[1].total_contributions > 0
  /\ resp.body.stats[2].total_contributions = 0
  /\ \E c \in db.candidate : c.id = 2

\* C9: create_pagination_meta: total_pages is ceil(total_items / page_size),
\* that is the least number of pages that hold total_items (0 for 0 items);
\* has_next holds exactly when page * page_size < total_items, has_prev
\* exactly when page > 1; page, page_size and total_items are echoed.
C9_PaginationMeta ==
  Served("create_pagination_meta") =>
    LET m == resp.body
    IN /\ m.total_pages * req.page_size >= req.total_items
       /\ m.total_pages > 0 => (m.total_pages - 1) * req.page_size < req.total_items
       /\ m.total_pages >= 0
       /\ req.total_items = 0 => m.total_pages = 0
       /\ m.has_next <=> req.page * req.page_size < req.total_items
       /\ m.has_prev <=> req.page > 1
       /\ m.page = req.page
       /\ m.page_size = req.page_size
       /\ m.total_items = req.total_items

\* the last page is partly filled and is not the page asked for
C9_Witness ==
  /\ Served("create_pagination_meta")
  /\ req.total_items % req.page_size # 0
  /\ resp.body.total_pages = 3
  /\ req.page = 2
  /\ resp.body.has_next

C10_Ops ==
  {"list_candidates_by_state", "list_house_candidates_by_state",
   "list_senate_candidates_by_state"}

C10_HasContribution(id) == \E k \in db.contribution : k.recipient_candidate_id = id

\* C10: with has_fundraising true the by-state listings return only
\* candidates with at least one contribution, and total_count counts only
\* such candidates, whatever include_stats is.
C10_HasFundraising ==
  (req.op \in C10_Ops /\ resp.status = 200 /\ req.has_fundraising) =>
    /\ \A i \in 1..Len(resp.body.items) : C10_HasContribution(resp.body.items[i].id)
    /\ resp.body.meta.total_items <=
         Cardinality({c \in db.candidate :
                        c.state = UpperCode(req.state) /\ C10_HasContribution(c.id)})

\* C12: with sort_by=name GET /candidates/by-state/{state} returns the
\* candidates sorted by name, non-decreasing for order=asc and
\* non-increasing for order=desc, whatever offices they run for.
C12_SortedByName ==
  (Served("list_candidates_by_state") /\ req.sort_by = "name") =>
    \A i, j \in 1..Len(resp.body.items) :
      i < j => IF req.order = "asc"
               THEN StrLeq(resp.body.items[i].name, resp.body.items[j].name)
               ELSE StrLeq(resp.body.items[j].name, resp.body.items[i].name)

\* the metric of an item the request sorts by
C13_Metric(item) ==
  IF req.sort_by = "total_amount" THEN item.stats.total_amount
  ELSE item.stats.total_contributions

\* C13: with include_stats=true and sort_by=total_amount (or
\* total_contributions) GET /candidates/by-state/{state} returns the
\* candidates sorted by the reported metric, non-decreasing for order=asc
\* and non-increasing for order=desc, candidates without contributions
\* (reported with 0) included.
C13_SortedByMetric ==
  (/\ Served("list_candidates_by_state")
   /\ req.include_stats
   /\ req.sort_by \in {"total_amount", "total_contributions"}) =>
    \A i, j \in 1..Len(resp.body.items) :
      i < j => IF req.order = "asc"
               THEN C13_Metric(resp.body.items[i]) <= C13_Metric(resp.body.items[j])
               ELSE C13_Metric(resp.body.items[i]) >= C13_Metric(resp.body.items[j])

C19_Ops ==
  {"list_candidates_by_state", "list_house_candidates_by_state",
   "list_senate_candidates_by_state"}

C19_Offices ==
  CASE req.op = "list_house_candidates_by_state" -> {"H"}
    [] req.op = "list_senate_candidates_by_state" -> {"S"}
    [] OTHER -> {UpperCode(req.office[i]) : i \in 1..Len(req.office)}

C19_District ==
  CASE req.op = "list_house_candidates_by_state" ->
         IF Len(req.district) = 1 THEN req.district[1] ELSE NullStr
    [] req.op = "list_senate_candidates_by_state" -> NullStr
    [] OTHER -> req.district

\* the candidates the item query of the served request selects, before
\* ORDER BY, OFFSET and LIMIT
C19_Selected ==
  {c \in db.candidate :
     /\ c.state = UpperCode(req.state)
     /\ C19_Offices # {} => c.office \in C19_Offices
     /\ req.party # << >> =>
          c.party \in {UpperCode(req.party[i]) : i \in 1..Len(req.party)}
     /\ C19_District # NullStr => c.district = C19_District
     /\ req.is_active # {} => c.is_active \in req.is_active
     /\ (req.has_fundraising /\ req.include_stats) =>
          LET ks == {k \in db.contribution : k.recipient_candidate_id = c.id}
          IN ks # {} /\ Sum([k \in ks |-> k.amount], ks) > 0}

\* C19: with return_count=True total_count is the number of rows the item
\* query returns without offset and limit, for every combination of the
\* filters and of sort_by and order, and the number of items returned is
\* min(limit, max(0, total_count - offset)).
C19_CountMatchesItems ==
  (req.op \in C19_Ops /\ resp.status = 200) =>
    LET total == resp.body.meta.total_items
        offset == (req.page - 1) * req.page_size
    IN /\ total = Cardinality(C19_Selected)
       /\ Len(resp.body.items) = Min({req.page_size, Max({0, total - offset})})
       /\ \A i \in 1..Len(resp.body.items) :
            \E c \in C19_Selected : c.id = resp.body.items[i].id

\* the fundraising filter is in force and removes a candidate of the state
C19_Witness ==
  /\ Served("list_candidates_by_state")
  /\ req.has_fundraising
  /\ req.include_stats
  /\ resp.body.meta.total_items = 1
  /\ Len(resp.body.items) = 1
  /\ Cardinality({c \in db.candidate : c.state = UpperCode(req.state)}) = 2

\* the counted (not earmark/conduit) contributions to the candidates of the
\* state of the served request
C14_Counted ==
  {k \in db.contribution :
     /\ NotConduit(k)
     /\ \E c \in db.candidate :
          c.state = UpperCode(req.state) /\ k.recipient_candidate_id = c.id}

\* C14: StateSummary.unique_contributors is the number of distinct
\* contributors with a counted contribution to at least one candidate of
\* the state; a contributor who gave to several candidates counts once.
C14_UniqueContributors ==
  Served("get_state_summary") =>
    resp.body.unique_contributors = Cardinality({k.contributor_id : k \in C14_Counted})

\* the total amount received by a committee: the sum of the amounts of the
\* contributions made to it
C11_TotalReceived(committee_id) ==
  LET ks == {k \in db.contribution : k.recipient_committee_id = committee_id}
  IN Sum([k \in ks |-> k.amount], ks)

\* the committees a list_committees request with its filters is about
C11_Selected ==
  {m \in db.committee :
     /\ CommitteeFilterDict(m, req)
     /\ C11_TotalReceived(m.id) >= req.min_total_received}

\* C11: when the committee filter min_total_received is given,
\* list_committees returns and counts only committees whose total amount
\* received (the sum of the amounts of the contributions to the committee)
\* is at least min_total_received.
C11_MinTotalReceived ==
  (Served("list_committees") /\ req.min_total_received # NoAmount) =>
    /\ \A i \in 1..Len(resp.body.items) :
         C11_TotalReceived(resp.body.items[i].id) >= req.min_total_received
    /\ resp.body.meta.total_items = Cardinality(C11_Selected)

\* q occurs in name as a substring, letters compared without regard to case
\* and every other character literally
C15_Contains(name, q) ==
  \E i \in 0..(Len(name) - Len(q)) :
    \A j \in 1..Len(q) : UpperChar(name[i + j]) = UpperChar(q[j])

\* the candidates a search for req.q is about, under the other filters given
\* (has_fundraising as the service applies it: total amount above zero)
C15_Candidates ==
  {c \in db.candidate :
     /\ C15_Contains(c.name, req.q)
     /\ req.op = "search_candidates" =>
          /\ Given(req.state) => c.state = UpperCode(req.state)
          /\ req.office # << >> => c.office \in Range(ParseCodes(req.office))
          /\ req.party # << >> => c.party \in Range(ParseCodes(req.party))
          /\ req.is_active # {} => c.is_active \in req.is_active
          /\ req.has_fundraising =>
               LET ks == {k \in db.contribution : k.recipient_candidate_id = c.id}
               IN ks # {} /\ Sum([k \in ks |-> k.amount], ks) > 0}

C15_Committees == {m \in db.committee : C15_Contains(m.name, req.q)}

C15_Contributors == {p \in db.contributor : C15_Contains(p.name, req.q)}

\* a page returns and counts exactly the rows expected
C15_Exact(page, expected, offset) ==
  /\ page.meta.total_items = Cardinality(expected)
  /\ Len(page.items) = Min({page.meta.page_size, Max({0, Cardinality(expected) - offset})})
  /\ \A i \in 1..Len(page.items) : \E x \in expected : x.id = page.items[i].id

\* C15: the candidate, committee and contributor searches perform
\* case-insensitive partial matching on names: each returns and counts
\* exactly the rows whose name contains q as a case-insensitive substring and
\* that satisfy the other filters given, every character of q being matched
\* literally.
C15_LiteralSubstring ==
  /\ Served("search_candidates") =>
       C15_Exact(resp.body, C15_Candidates, (req.page - 1) * req.page_size)
  /\ Served("search_committees") =>
       C15_Exact(resp.body, C15_Committees, (req.page - 1) * req.page_size)
  /\ Served("unified_search") =>
       /\ resp.body.candidates # None => C15_Exact(resp.body.candidates, C15_Candidates, 0)
       /\ resp.body.contributors # None =>
            C15_Exact(resp.body.contributors, C15_Contributors, 0)
       /\ resp.body.committees # None => C15_Exact(resp.body.committees, C15_Committees, 0)

\* the same for the queries made of letters only
C15_LettersOnly ==
  (resp.status = 200 /\ \A j \in 1..Len(req.q) : req.q[j] \notin {"_", "%"}) => C15_LiteralSubstring

\* the date range of the served request contains the date of every
\* contribution made to the candidate
C16_RangeCoversAll ==
  \A k \in db.contribution :
    k.recipient_candidate_id = req.candidate_id =>
      /\ req.date_from # NoDate => req.date_from <= k.contribution_date
      /\ req.date_to # NoDate => k.contribution_date <= req.date_to

\* the responses the same request gives without its date filters
C16_Undated ==
  get_contributors_by_candidate(
    db,
    [req EXCEPT !.state = UpperOpt(req.state), !.entity_type = UpperOpt(req.entity_type),
                !.date_from = NoDate, !.date_to = NoDate],
    (req.page - 1) * req.page_size, req.page_size).results

\* C16: in get_contributors_by_candidate the live-aggregation path is
\* consistent with the materialized view: the view holding, per contributor
\* and candidate, the count, sum and first/last date of the contributions
\* that are not earmark/conduit records, a request whose date range contains
\* every contribution date returns the same contributor rows, the same
\* total_items and the same summary as the same request without date
\* filters.
C16_LiveMatchesView ==
  (Served("get_contributors_by_candidate") /\ C2_Dated /\ C16_RangeCoversAll) =>
    \E res \in C16_Undated :
      /\ res.body.contributors = resp.body.contributors
      /\ res.body.meta.total_items = resp.body.meta.total_items
      /\ res.body.summary = resp.body.summary

\* both dates are given, the candidate has an earmark record beside counted
\* contributions, and rows are returned
C16_Witness ==
  /\ Served("get_contributors_by_candidate")
  /\ req.date_from # NoDate
  /\ req.date_to # NoDate
  /\ C16_RangeCoversAll
  /\ Len(resp.body.contributors) > 0
  /\ \E k \in db.contribution :
       k.recipient_candidate_id = req.candidate_id /\ k.is_earmark_receipt
  /\ \E k \in db.contribution :
       k.recipient_candidate_id = req.candidate_id /\ k.contribution_date = req.date_to

\* the contributions a list_contributions call with its filters is about
C17_Selected ==
  {k \in db.contribution :
     /\ ContributionFilterDict(k, req)
     /\ req.start_date # NoDate => k.contribution_date >= req.start_date
     /\ req.end_date # NoDate => k.contribution_date <= req.end_date
     /\ req.min_amount # NoAmount => k.amount >= req.min_amount
     /\ req.max_amount # NoAmount => k.amount <= req.max_amount}

\* C17: list_contributions honours its range filters for every value
\* ContributionFilters allows: whenever min_amount is given (any value >= 0,
\* zero included) every returned and counted contribution has
\* amount >= min_amount, whenever max_amount is given (zero included) every
\* one has amount <= max_amount, and start_date and end_date are inclusive
\* bounds on contribution_date.
C17_RangeFilters ==
  Served("list_contributions") =>
    /\ resp.body.total_count = Cardinality(C17_Selected)
    /\ \A i \in 1..Len(resp.body.contributions) : resp.body.contributions[i] \in C17_Selected

\* the same for the calls whose amount bounds are absent or above zero
C17_NonZeroBounds ==
  (resp.status = 200 /\ req.op = "list_contributions"
   /\ req.min_amount # 0 /\ req.max_amount # 0) => C17_RangeFilters

\* the item apply_field_selection works on: a BaseModel is dumped first
C18_Item(i) ==
  IF req.data.items[i].is_model THEN model_dump(req.data.items[i].data)
  ELSE req.data.items[i].data

\* the names x such that the dotted name k.x is among the fields
C18_Nested(k) ==
  {NestedField(f) : f \in {g \in req.fields.names : HasDot(g) /\ ParentField(g) = k}}

\* the keys of an item that the fields ask for, plainly or through a dotted name
C18_Keys(item) ==
  {k \in DOMAIN item :
     k \in req.fields.names \/ \E f \in req.fields.names : HasDot(f) /\ ParentField(f) = k}

\* what the claim states of the result for one item
C18_Selected(item, result) ==
  /\ DOMAIN result = C18_Keys(item)
  /\ \A k \in C18_Keys(item) :
       /\ k \in req.fields.names => result[k] = item[k]
       /\ (k \notin req.fields.names /\ item[k].kind = "dict") =>
            /\ result[k].kind = "dict"
            /\ DOMAIN result[k].entries = C18_Nested(k) \cap DOMAIN item[k].entries
            /\ \A x \in DOMAIN result[k].entries : result[k].entries[x] = item[k].entries[x]

\* C18: apply_field_selection(data, fields) returns every field when fields
\* is None or empty; otherwise the result of each item holds exactly the
\* top-level keys k of the item such that k is in fields or some 'k.x' is in
\* fields, a key requested plainly keeps its whole value, and a dict-valued
\* key requested only through dotted names maps to a dict holding exactly
\* the requested nested keys that exist in the item; requested names that
\* the item lacks are ignored and the result does not depend on the order in
\* which the set of fields is iterated.
C18_FieldSelection ==
  Served("apply_field_selection") =>
    /\ Len(resp.body.items) = Len(req.data.items)
    /\ \A i \in 1..Len(req.data.items) :
         IF ~req.fields.given \/ req.fields.names = {}
         THEN resp.body.items[i] = C18_Item(i)
         ELSE C18_Selected(C18_Item(i), resp.body.items[i])
    /\ \A order \in IterationOrders(req.fields.names) :
         apply_field_selection(req.data, req.fields, order) = resp.body

\* the same for the items none of whose values is a nested model
C18_NoNestedModel ==
  (Served("apply_field_selection")
   /\ \A i \in 1..Len(req.data.items) :
        \A k \in DOMAIN C18_Item(i) : C18_Item(i)[k].kind # "model")
    => C18_FieldSelection

====
